---- MODULE Spec2Model ----
(***************************************************************************)
(* Model of the generic service-provider reconcile loop                    *)
(* (pkg/runtime/spreconciler.go, pkg/runtime/status.go).                   *)
(*                                                                         *)
(* SPReconciler.Reconcile is modelled step by step: every call that        *)
(* leaves the process (onboarding store, cluster-access collaborator,      *)
(* domain reconciler) is one action, so that other actors (the fan-out     *)
(* consumer that swaps the cached provider configuration, the end user     *)
(* that creates and deletes objects) interleave with an invocation.        *)
(***************************************************************************)
EXTENDS Integers, Sequences, FiniteSets, TLC

\* ------------------------------------------------------------------ bounds
\* largest requeue delay a collaborator or the domain reconciler reports
MaxDelay == 2

\* number of object identities (namespace+name) of the managed kind
NumObjects == 2

\* capacity of the provider-update channel: the channel is made by the caller
\* of WithUpdateChannel, 0 is an unbuffered channel
MaxChanCap == 1

\* number of changes platform operators make to the provider configuration
MaxChanges == 3

\* largest metadata.generation of an object handed to a status helper
MaxGeneration == 2

\* the object identities, in the order a listing returns them
Objects == 1 .. NumObjects

\* the identities whose Reconcile invocations are followed step by step
Keys == {1}

\* requeue delays (ctrl.Result.RequeueAfter)
Delays == 0 .. MaxDelay

\* provider configurations that platform operators publish; PollInterval()
\* may be 0 ("Return 0 if not required")
Configs == { [rev |-> 1, pollInterval |-> 5], [rev |-> 2, pollInterval |-> 0] }

\* the nil pointer
NilConfig == [nil |-> TRUE]

\* ------------------------------------------------------------------ status
\* pkg/runtime/status.go
ServiceProviderConditionReady == "Ready"
StatusPhaseReady == "Ready"
StatusPhaseProgressing == "Progressing"
StatusPhaseTerminating == "Terminating"

\* status block of a freshly created object: no phase, no condition
EmptyStatus ==
  [phase |-> "", observedGeneration |-> 0, conditions |-> << >>]

\* metav1.Condition as the helpers fill it (lastTransitionTime changes only
\* together with status, so it never decides an equality and is left out)
Condition(type, status, generation, reason, message) ==
  [type |-> type, status |-> status, observedGeneration |-> generation,
   reason |-> reason, message |-> message]

\* meta.FindStatusCondition: position of the first condition of the type, 0 if none
FindStatusCondition(conds, type) ==
  IF \E i \in DOMAIN conds : conds[i].type = type
  THEN CHOOSE i \in DOMAIN conds :
         /\ conds[i].type = type
         /\ \A j \in DOMAIN conds : conds[j].type = type => i <= j
  ELSE 0

\* mutant of SetStatusCondition: the condition is always appended
SetStatusCondition_Append(conds, c) == Append(conds, c)

\* meta.SetStatusCondition: the condition of the same type is overwritten in
\* place, a condition of a new type is appended
SetStatusCondition(conds, c) ==
  LET i == FindStatusCondition(conds, c.type) IN
  IF i = 0 THEN Append(conds, c) ELSE [conds EXCEPT ![i] = c]

\* the three statements every helper makes: meta.SetStatusCondition on the
\* Ready condition, SetObservedGeneration, SetPhase
SetStatus(o, phase, ready, reason, message) ==
  [o EXCEPT !.status =
     [conditions |-> SetStatusCondition(o.status.conditions,
                       Condition(ServiceProviderConditionReady, ready,
                                 o.generation, reason, message)),
      observedGeneration |-> o.generation,
      phase |-> phase]]

\* mutant of StatusProgressing: the condition is written with status True
StatusProgressing_True(o, reason, message) ==
  SetStatus(o, StatusPhaseProgressing, "True", reason, message)

StatusProgressing(o, reason, message) ==
  SetStatus(o, StatusPhaseProgressing, "False", reason, message)

StatusReady(o) ==
  SetStatus(o, StatusPhaseReady, "True", "ReconcileSuccess", "Domain Service is ready")

StatusTerminating(o) ==
  SetStatus(o, StatusPhaseTerminating, "False", "Terminating", "Cleanup in progress")

\* what a domain reconciler may do to the status of the object it is handed
DomainStatusOps == {"none", "Ready", "Progressing", "Terminating"}

DomainStatus(o, op) ==
  CASE op = "Ready"       -> StatusReady(o)
    [] op = "Progressing" -> StatusProgressing(o, "DomainReason", "domain message")
    [] op = "Terminating" -> StatusTerminating(o)
    [] OTHER              -> o

\* ------------------------------------------------------------------ state
VARIABLES
  store,               \* onboarding cluster: key -> "absent" or the object
  access,              \* collaborator's access request records per key
  withWorkloadCluster, \* SPReconciler.withWorkloadCluster
  providerConfig,      \* SPReconciler.providerConfig (atomic pointer)
  requests,            \* requests emitted by the last fan-out
  pc,                  \* position of the Reconcile invocation of each key
  obj,                 \* the invocation's in-memory object
  old,                 \* oldObj.GetStatus()
  cfg,                 \* providerConfigCopy
  pend,                \* res, err of the last operation
  log,                 \* calls made by the current (or last) invocation
  ret,                 \* what the last invocation returned
  domDeleteDone,       \* history: domain Delete completed since the marker was set
  teardownDone,        \* history: ReconcileDelete completed since the marker was set
  prev,                \* history: the previous invocation, while this one repeats it
  touched,             \* history: a user changed the object since the last Get
  tracking,            \* whether prev and touched are recorded
  platformConfig,      \* platform cluster: "absent" or the provider configuration object
  pcDirty,             \* a request for the provider configuration is queued
  changes,             \* history: number of changes made to the provider configuration
  pcrPc,               \* position of the PCReconciler.Reconcile invocation
  notify,              \* the invocation's event: its Object, NilConfig if unset
  pcrRet,              \* what the invocation returns
  sent,                \* history: events the invocation has published
  chan,                \* providerUpdateChannel: the buffered events
  chanCap,             \* providerUpdateChannel: its capacity
  evObject,            \* the object of the event handled last, as it is now
  aliased,             \* the cached pointer points at evObject itself
  helped,              \* an object handed to the status helpers
  helpedOld,           \* history: that object before the last helper call
  helperCall,          \* history: the last helper call, fresh until the object changes
  fetched,             \* history: what the store held when the invocation started
  mapPc,               \* position of the map function of the channel source, 0: not running
  order                \* history: the events handled, numbered, and who saw which

vars == << store, access, withWorkloadCluster, providerConfig, requests,
           pc, obj, old, cfg, pend, log, ret, domDeleteDone, teardownDone,
           prev, touched, tracking, platformConfig, pcDirty, changes, pcrPc,
           notify, pcrRet, sent, chan, chanCap, evObject, aliased,
           helped, helpedOld, helperCall, fetched, mapPc, order >>

\* no object under the key; no in-memory object; nothing returned yet
Absent == [absent |-> TRUE]
NoObj == [none |-> TRUE]
NoRet == [none |-> TRUE]

\* no event handled yet, no request queued, taken up or served
NoOrder ==
  [events |-> << >>, cached |-> 0,
   queued |-> [k \in Objects |-> 0], taken |-> [k \in Objects |-> 0],
   loaded |-> [k \in Objects |-> 0]]

\* access request records of one key
NoAccess == [mcp |-> "absent", wl |-> "absent"]

NewObject == [deleted |-> FALSE, finalizer |-> FALSE, generation |-> 1,
              status |-> EmptyStatus]

Ev(op, err, delay, val) == [op |-> op, err |-> err, delay |-> delay, val |-> val]

Res(delay, err) == [delay |-> delay, err |-> err]

\* a new reconciler on empty clusters
NewWorlds ==
  { [withWorkloadCluster |-> b,
     store |-> [k \in Objects |-> Absent],
     access |-> [k \in Objects |-> NoAccess],
     providerConfig |-> NilConfig] : b \in BOOLEAN }

\* the state after construction; t: whether the look-back history is
\* recorded, cap: the capacities the provider-update channel may have, objs:
\* the objects that may be handed to the status helpers, worlds: what the
\* reconciler is built with and what the clusters hold
Start(t, cap, objs, worlds) ==
  /\ tracking = t
  /\ \E w \in worlds :
       /\ withWorkloadCluster = w.withWorkloadCluster
       /\ store = w.store
       /\ access = w.access
       /\ providerConfig = w.providerConfig
       /\ evObject = w.providerConfig
  /\ requests = << >>
  /\ pc = [k \in Objects |-> "idle"]
  /\ obj = [k \in Objects |-> NoObj]
  /\ old = [k \in Objects |-> NoObj]
  /\ cfg = [k \in Objects |-> NilConfig]
  /\ pend = [k \in Objects |-> Res(0, FALSE)]
  /\ log = [k \in Objects |-> << >>]
  /\ ret = [k \in Objects |-> NoRet]
  /\ domDeleteDone = [k \in Objects |-> FALSE]
  /\ teardownDone = [k \in Objects |-> FALSE]
  /\ prev = [k \in Objects |-> NoRet]
  /\ touched = [k \in Objects |-> FALSE]
  /\ platformConfig = Absent
  /\ pcDirty = FALSE
  /\ changes = 0
  /\ pcrPc = "idle"
  /\ notify = NilConfig
  /\ pcrRet = NoRet
  /\ sent = 0
  /\ chan = << >>
  /\ chanCap \in cap
  /\ aliased = FALSE
  /\ fetched = [k \in Objects |-> NoObj]
  /\ mapPc = 0
  /\ order = NoOrder
  /\ helped \in objs
  /\ helpedOld = NoObj
  /\ helperCall = NoRet

Init == Start(FALSE, {0}, {NoObj}, NewWorlds)

\* ------------------------------------------------------------ pure helpers
\* mutant of NeedsPatch: the status is patched whether or not it changed
NeedsPatch_Always(o, oldStatus) == TRUE

\* equality.Semantic.DeepEqual(oldObj.GetStatus(), newObj.GetStatus()) is false
NeedsPatch(o, oldStatus) == o.status # oldStatus

\* client.MergeFrom(oldObj): a JSON merge patch carries the fields that differ
\* between the old and the new status; the server overwrites exactly those
MergePatch(stored, oldStatus, newStatus) ==
  [f \in DOMAIN stored |->
     IF newStatus[f] # oldStatus[f] THEN newStatus[f] ELSE stored[f]]

\* mutant of PollOf: the cache is loaded a second time for the poll interval
PollOf_Reload(c) == IF providerConfig = NilConfig THEN 0 ELSE providerConfig.pollInterval

\* providerConfigCopy.PollInterval()
PollOf(c) == IF c = NilConfig THEN 0 ELSE c.pollInterval

\* mutants of ReconcileResult: the operation's delay is dropped, resp. the
\* delay is returned together with the error, resp. the error is swallowed
ReconcileResult_ErrDropped(res, err, poll) ==
  IF res > 0 THEN Res(res, FALSE) ELSE Res(poll, FALSE)
ReconcileResult_AlwaysPoll(res, err, poll) ==
  IF err THEN Res(0, TRUE) ELSE Res(poll, FALSE)
ReconcileResult_DelayWithErr(res, err, poll) ==
  IF err THEN Res(res, TRUE)
  ELSE IF res > 0 THEN Res(res, FALSE)
  ELSE Res(poll, FALSE)

\* tail of Reconcile: "return based on result/err"
ReconcileResult(res, err, poll) ==
  IF err THEN Res(0, TRUE)
  ELSE IF res > 0 THEN Res(res, FALSE)
  ELSE Res(poll, FALSE)

\* an access request lookup, as the collaborator answers it from its records
RecordLookup(r) ==
  CASE r = "absent"   -> "notfound"
    [] r = "deleting" -> "deleting"
    [] OTHER          -> "live"

\* mutant of LookupInDeletion: only a record with a deletion marker counts
LookupInDeletion_MarkerOnly(l) == l = "deleting"

\* apierrors.IsNotFound(err) || (accessRequest != nil && DeletionTimestamp != nil)
LookupInDeletion(l) == l \in {"notfound", "deleting"}

\* mutant of areAccessRequestsInDeletion: the workload record is not looked at
areAccessRequestsInDeletion_McpOnly(mcpLookup, wlLookup, wwc) ==
  IF LookupInDeletion(mcpLookup) THEN [val |-> TRUE, err |-> FALSE]
  ELSE [val |-> FALSE, err |-> mcpLookup = "error"]

\* mutant of areAccessRequestsInDeletion: a failed lookup counts as in deletion
areAccessRequestsInDeletion_ErrIsTrue(mcpLookup, wlLookup, wwc) ==
  IF mcpLookup # "live" THEN [val |-> TRUE, err |-> FALSE]
  ELSE [val |-> wwc /\ wlLookup # "live", err |-> FALSE]

\* areAccessRequestsInDeletion as a function of the two lookups
areAccessRequestsInDeletion(mcpLookup, wlLookup, wwc) ==
  IF LookupInDeletion(mcpLookup) THEN [val |-> TRUE, err |-> FALSE]
  ELSE IF mcpLookup = "error" THEN [val |-> FALSE, err |-> TRUE]
  ELSE IF wwc
       THEN IF LookupInDeletion(wlLookup) THEN [val |-> TRUE, err |-> FALSE]
            ELSE IF wlLookup = "error" THEN [val |-> FALSE, err |-> TRUE]
            ELSE [val |-> FALSE, err |-> FALSE]
       ELSE [val |-> FALSE, err |-> FALSE]

\* mutants of DomainDeleteComplete: a positive delay, resp. an error, is ignored
DomainDeleteComplete_IgnoreDelay(r) == ~r.err
DomainDeleteComplete_IgnoreErr(r) == r.delay = 0

\* delete: what follows the domain Delete call and its status patch
\* ("if err != nil return; if res.RequeueAfter > 0 return res")
DomainDeleteComplete(r) == ~r.err /\ r.delay = 0

\* mutant of TeardownComplete: a pending teardown counts as done
TeardownComplete_IgnoreDelay(r) == ~r.err

\* delete: what follows ReconcileDelete
TeardownComplete(r) == ~r.err /\ r.delay = 0

\* mutant of FinalizerPersisted: the error of the finalizer write is dropped
FinalizerPersisted_Always(err) == TRUE

\* createOrUpdate: the finalizer write must have succeeded to go on
FinalizerPersisted(err) == ~err

\* mutant of AddFinalizer: the mutate function leaves the object as it is
AddFinalizer_Noop(o) == o

\* controllerutil.AddFinalizer(obj, obj.Finalizer())
AddFinalizer(o) == [o EXCEPT !.finalizer = TRUE]

\* mutant of RemoveFinalizer: the finalizer stays on the object
RemoveFinalizer_Keep(o) == o

\* controllerutil.RemoveFinalizer(obj, obj.Finalizer())
RemoveFinalizer(o) == [o EXCEPT !.finalizer = FALSE]

\* mutants of HandleUsable: only an error stops clusters, a nil handle
\* passes; resp. only a nil handle stops clusters, an error passes
HandleUsable_NilPasses(h) == h # "error"
HandleUsable_ErrorPasses(h) == h # "nil"

\* clusters: a nil handle without error is "access missing"
HandleUsable(h) == h = "handle"

\* mutant of PatchEscalates: a failed patch fails the reconciliation
PatchEscalates_OnFailure(ok) == ~ok

\* updateStatus logs a failed patch and goes on: the error is not returned
PatchEscalates(ok) == FALSE

\* ------------------------------------------------- collaborator (black box)
\* mutant of RequestFor: every call to the collaborator names the first object
RequestFor_First(k) == 1

\* req := ctrl.Request{NamespacedName: client.ObjectKeyFromObject(obj)}: the
\* key the collaborator is called with by the invocation of k
RequestFor(k) == k

Provision(a, wwc) ==
  [mcp |-> IF a.mcp = "absent" THEN "live" ELSE a.mcp,
   wl  |-> IF wwc /\ a.wl = "absent" THEN "live" ELSE a.wl]

\* the managed-control-plane access request alone
ProvisionMCP(a) == [a EXCEPT !.mcp = IF @ = "absent" THEN "live" ELSE @]

MarkForDeletion(a) ==
  [mcp |-> IF a.mcp = "live" THEN "deleting" ELSE a.mcp,
   wl  |-> IF a.wl = "live" THEN "deleting" ELSE a.wl]

\* clusterAccessReconciler.Reconcile: error, "not ready yet" (positive delay),
\* or done; it creates the access requests it is asked for, and may have
\* created none or only the first when it fails
CarReconcileOutcomes(a, wwc) ==
     { [err |-> TRUE, delay |-> 0, access |-> x] :
         x \in {a, ProvisionMCP(a), Provision(a, wwc)} }
  \cup { [err |-> FALSE, delay |-> d, access |-> Provision(a, wwc)] : d \in Delays }

\* clusterAccessReconciler.ReconcileDelete: error, teardown pending, or done
CarDeleteOutcomes(a) ==
     { [err |-> TRUE, delay |-> 0, access |-> x] : x \in {a, MarkForDeletion(a)} }
  \cup { [err |-> FALSE, delay |-> d, access |-> MarkForDeletion(a)] : d \in Delays \ {0} }
  \cup { [err |-> FALSE, delay |-> 0, access |-> NoAccess] }

\* MCPCluster / WorkloadCluster: a handle, nil without error, or an error
HandleOutcomes == {"handle", "nil", "error"}

\* ------------------------------------------------------------- bookkeeping
\* what an invocation was answered: its calls without the status patches and
\* without the kind of write CreateOrUpdate made
Responses(lg) ==
  LET calls == SelectSeq(lg, LAMBDA e : e.op # "StatusPatch") IN
  [i \in DOMAIN calls |->
     IF calls[i].op = "CreateOrUpdate" THEN [calls[i] EXCEPT !.val = ""]
     ELSE calls[i]]

\* a finished invocation, as the next one of the same key looks back at it
Summary(lg) ==
  [calls |-> Responses(lg),
   patched |-> \A i \in DOMAIN lg : lg[i].op = "StatusPatch" => ~lg[i].err]

IsPrefix(a, b) ==
  /\ Len(a) <= Len(b)
  /\ \A i \in DOMAIN a : a[i] = b[i]

\* prev: the previous invocation of the key, kept while nobody but that
\* invocation has changed the object since it fetched it and the running
\* invocation is answered as that one was
PrevAfter(k, lg) ==
  LET p == IF pc[k] \notin {"idle", "done"} THEN prev[k]
           ELSE IF pc[k] = "done" /\ ~touched[k] THEN Summary(log[k])
           ELSE NoRet
  IN IF tracking /\ p # NoRet /\ IsPrefix(Responses(lg), p.calls) THEN p ELSE NoRet

\* order: the host hands the queued request of k to the invocation when it
\* starts; the invocation's Load returns the pointer stored for the event
\* numbered order.cached
OrderAfter(k) ==
  IF pc[k] \in {"idle", "done"}
  THEN [order EXCEPT !.taken[k] = order.queued[k], !.queued[k] = 0]
  ELSE IF pc[k] = "load" THEN [order EXCEPT !.loaded[k] = order.cached]
  ELSE order

Step(k, p, o, ol, c, pe, r, lg) ==
  /\ order' = OrderAfter(k)
  /\ fetched' = IF tracking /\ pc[k] \in {"idle", "done"}
                THEN [fetched EXCEPT ![k] = store[k]] ELSE fetched
  /\ prev' = [prev EXCEPT ![k] = PrevAfter(k, lg)]
  /\ touched' = [touched EXCEPT ![k] = IF pc[k] \in {"idle", "done"} THEN FALSE ELSE @]
  /\ pc' = [pc EXCEPT ![k] = p]
  /\ obj' = [obj EXCEPT ![k] = o]
  /\ old' = [old EXCEPT ![k] = ol]
  /\ cfg' = [cfg EXCEPT ![k] = c]
  /\ pend' = [pend EXCEPT ![k] = pe]
  /\ ret' = [ret EXCEPT ![k] = r]
  /\ log' = [log EXCEPT ![k] = lg]

Goto(k, p, o, pe, ev) ==
  Step(k, p, o, old[k], cfg[k], pe, NoRet, Append(log[k], ev))

\* Reconcile returns r
Return(k, o, r, ev) ==
  Step(k, "done", o, old[k], cfg[k], pend[k], r, Append(log[k], ev))

\* mutant of Finish: the status is patched only when createOrUpdate succeeded
Finish_PatchOnSuccess(k, o, res, err, ev) ==
  IF ~err /\ NeedsPatch(o, old[k])
  THEN Goto(k, "patch_ret", o, Res(res, err), ev)
  ELSE Return(k, o, ReconcileResult(res, err, PollOf(cfg[k])), ev)

\* Reconcile, create/update branch: updateStatus, then the tail
Finish(k, o, res, err, ev) ==
  IF NeedsPatch(o, old[k])
  THEN Goto(k, "patch_ret", o, Res(res, err), ev)
  ELSE Return(k, o, ReconcileResult(res, err, PollOf(cfg[k])), ev)

\* Reconcile, deletion branch: delete returned (res, err), then the tail
DeleteReturn(k, o, res, err, ev) ==
  Return(k, o, ReconcileResult(res, err, PollOf(cfg[k])), ev)

\* the secondary loop and the channel; the event object the cache was fed from
Producer == << platformConfig, pcDirty, changes, pcrPc, notify, pcrRet, sent, chan, chanCap >>
Fan == << Producer, evObject, aliased, mapPc >>
Helper == << helped, helpedOld, helperCall >>
Env == << store, access, withWorkloadCluster, providerConfig, requests, Fan, Helper >>
Hist == << domDeleteDone, teardownDone, tracking >>
Look == << prev, touched, fetched, order >>
Locals == << pc, obj, old, cfg, pend, log, ret >>

\* ------------------------------------------------------------ environment
\* an end user creates the object
CreateObject(k) ==
  /\ store[k] = Absent
  /\ store' = [store EXCEPT ![k] = NewObject]
  /\ domDeleteDone' = [domDeleteDone EXCEPT ![k] = FALSE]
  /\ teardownDone' = [teardownDone EXCEPT ![k] = FALSE]
  /\ touched' = [touched EXCEPT ![k] = tracking]
  /\ prev' = [prev EXCEPT ![k] = NoRet]
  /\ UNCHANGED << access, withWorkloadCluster, providerConfig, requests, Fan, Helper, Locals,
                  tracking, fetched, order >>

\* an end user deletes the object: the store sets the deletion marker, and
\* drops the object at once when no finalizer holds it
MarkDeleted(k) ==
  /\ store[k] # Absent
  /\ ~store[k].deleted
  /\ store' = [store EXCEPT ![k] =
                 IF store[k].finalizer THEN [store[k] EXCEPT !.deleted = TRUE]
                 ELSE Absent]
  /\ touched' = [touched EXCEPT ![k] = tracking]
  /\ prev' = [prev EXCEPT ![k] = NoRet]
  /\ UNCHANGED << access, withWorkloadCluster, providerConfig, requests, Fan, Helper, Locals,
                  Hist, fetched, order >>

\* the objects a successful List returns, in listing order
RECURSIVE ListItems(_)
ListItems(n) ==
  IF n = 0 THEN << >>
  ELSE IF store[n] # Absent THEN Append(ListItems(n - 1), n)
  ELSE ListItems(n - 1)

\* mutant of Requests: the loop stops one item early
Requests_DropLast(items) ==
  [i \in 1 .. (IF Len(items) = 0 THEN 0 ELSE Len(items) - 1) |-> items[i]]

\* reqs[i] = reconcile.Request{NamespacedName: key of list.Items[i]}
Requests(items) == [i \in 1 .. Len(items) |-> items[i]]

\* mutant of DeepCopyObject: the object itself is handed on
DeepCopyObject_Alias(o) == [val |-> o, shared |-> TRUE]

\* obj.DeepCopyObject(): a new object with the same content
DeepCopyObject(o) == [val |-> o, shared |-> FALSE]

\* the map function of the provider-config channel source, on an event whose
\* object is ev (NilConfig: the event carries none): the cache is replaced,
\* then the objects are listed and one request per item is returned
UpdateAndList(ev, listOk) ==
  /\ providerConfig' = IF ev # NilConfig THEN DeepCopyObject(ev).val ELSE NilConfig
  /\ aliased' = (ev # NilConfig /\ DeepCopyObject(ev).shared)
  /\ evObject' = ev
  /\ requests' = IF listOk THEN Requests(ListItems(NumObjects)) ELSE << >>

\* SetupWithManager: an event of the channel source reaches the map function
MapFunc(ev, listOk) ==
  /\ UpdateAndList(ev, listOk)
  /\ UNCHANGED << store, access, withWorkloadCluster, Locals, Hist, Look, Helper, Producer,
                  mapPc >>

\* ------------------------------------------------------- Reconcile, common
\* mutant of IgnoreNotFound: a not-found lookup is returned as an error
IgnoreNotFound_Keep(l) == l # "found"

\* client.IgnoreNotFound(err) on the outcome l of the lookup: only an error
\* other than not-found is returned to the host
IgnoreNotFound(l) == l = "error"

\* r.onboardingCluster.Client().Get; oldObj := obj.DeepCopyObject()
Reconcile_Get(k) ==
  /\ pc[k] \in {"idle", "done"}
  /\ \E getErr \in BOOLEAN :
       LET l == IF getErr THEN "error"
                ELSE IF store[k] = Absent THEN "notfound" ELSE "found"
       IN
       IF l # "found"
       THEN Step(k, "done", NoObj, NoObj, NilConfig, Res(0, FALSE),
                 Res(0, IgnoreNotFound(l)),
                 << Ev("Get", IgnoreNotFound(l), 0, l) >>)
       ELSE Step(k, "load", store[k], store[k].status, NilConfig, Res(0, FALSE), NoRet,
                 << Ev("Get", FALSE, 0, "found") >>)
  /\ UNCHANGED << Env, Hist >>

\* mutant of ConfigMissing: a nil pointer passes the check
ConfigMissing_Never(c) == FALSE

\* if providerConfig == nil
ConfigMissing(c) == c = NilConfig

\* r.providerConfig.Load(), the nil check and the branch on the deletion marker
Reconcile_Load(k) ==
  /\ pc[k] = "load"
  /\ IF ConfigMissing(providerConfig)
     THEN LET o == StatusProgressing(obj[k], "ReconcileError", "No ProviderConfig found")
              ev == Ev("Load", FALSE, 0, NilConfig)
          IN IF NeedsPatch(o, old[k])
             THEN Goto(k, "patch_ret", o, Res(0, TRUE), ev)
             ELSE Return(k, o, Res(0, TRUE), ev)
     ELSE Step(k, IF obj[k].deleted THEN "del_mcpar" ELSE "cou_finalizer",
               obj[k], old[k], providerConfig, pend[k], NoRet,
               Append(log[k], Ev("Load", FALSE, 0, providerConfig)))
  /\ UNCHANGED << Env, Hist >>

\* updateStatus: Status().Patch(newObj, MergeFrom(oldObj)), last step before
\* Reconcile returns
updateStatus_Return(k) ==
  /\ pc[k] = "patch_ret"
  /\ \E ok \in BOOLEAN :
       /\ ok => store[k] # Absent
       /\ store' = IF ok
                   THEN [store EXCEPT ![k].status =
                           MergePatch(store[k].status, old[k], obj[k].status)]
                   ELSE store
       /\ LET o == IF ok THEN store'[k] ELSE obj[k]
              r == IF PatchEscalates(ok) THEN Res(0, TRUE)
                   ELSE ReconcileResult(pend[k].delay, pend[k].err, PollOf(cfg[k]))
          IN Return(k, o, r, Ev("StatusPatch", ~ok, 0, ""))
  /\ UNCHANGED << access, withWorkloadCluster, providerConfig, requests, Fan, Helper, Hist >>

\* ------------------------------------------------ Reconcile, create/update
\* controllerutil.CreateOrUpdate(obj, AddFinalizer): Get the object again,
\* add the finalizer, Update when that changed the object.  When the object
\* is gone the helper tries to Create obj, which the store refuses because
\* obj still carries the resourceVersion of the first Get.
createOrUpdate_Finalizer(k) ==
  /\ pc[k] = "cou_finalizer"
  /\ \E fail \in BOOLEAN :
       LET gone == store[k] = Absent
           err == fail \/ gone
           fresh == IF gone THEN obj[k] ELSE store[k]
           o == AddFinalizer(fresh)
           wrote == ~err /\ o # fresh
           ev == Ev("CreateOrUpdate", err, 0, IF wrote THEN "updated" ELSE "unchanged")
       IN /\ store' = IF wrote THEN [store EXCEPT ![k] = o] ELSE store
          /\ IF FinalizerPersisted(err)
             THEN Goto(k, "cou_carrec", o, pend[k], ev)
             ELSE Finish(k, o, 0, TRUE, ev)
  /\ UNCHANGED << access, withWorkloadCluster, providerConfig, requests, Fan, Helper, Hist >>

\* clusters: r.clusterAccessReconciler.Reconcile
createOrUpdate_Access(k) ==
  /\ pc[k] = "cou_carrec"
  /\ \E out \in CarReconcileOutcomes(access[RequestFor(k)], withWorkloadCluster) :
       LET ev == Ev("Reconcile", out.err, out.delay, "")
       IN /\ access' = [access EXCEPT ![RequestFor(k)] = out.access]
          /\ IF out.err THEN Finish(k, obj[k], 0, TRUE, ev)
             ELSE IF out.delay > 0 THEN Finish(k, obj[k], out.delay, FALSE, ev)
             ELSE Goto(k, "cou_mcpcl", obj[k], pend[k], ev)
  /\ UNCHANGED << store, withWorkloadCluster, providerConfig, requests, Fan, Helper, Hist >>

\* clusters: r.clusterAccessReconciler.MCPCluster
createOrUpdate_MCPCluster(k) ==
  /\ pc[k] = "cou_mcpcl"
  /\ \E h \in HandleOutcomes :
       LET ev == Ev("MCPCluster", ~HandleUsable(h), 0, h)
       IN IF ~HandleUsable(h) THEN Finish(k, obj[k], 0, TRUE, ev)
          ELSE Goto(k, IF withWorkloadCluster THEN "cou_wlcl" ELSE "cou_domain",
                    obj[k], pend[k], ev)
  /\ UNCHANGED << Env, Hist >>

\* clusters: r.clusterAccessReconciler.WorkloadCluster
createOrUpdate_WorkloadCluster(k) ==
  /\ pc[k] = "cou_wlcl"
  /\ \E h \in HandleOutcomes :
       LET ev == Ev("WorkloadCluster", ~HandleUsable(h), 0, h)
       IN IF ~HandleUsable(h) THEN Finish(k, obj[k], 0, TRUE, ev)
          ELSE Goto(k, "cou_domain", obj[k], pend[k], ev)
  /\ UNCHANGED << Env, Hist >>

\* r.serviceProviderReconciler.CreateOrUpdate(ctx, obj, pc, clusters)
createOrUpdate_Domain(k) ==
  /\ pc[k] = "cou_domain"
  /\ \E d \in Delays, e \in BOOLEAN, op \in DomainStatusOps :
       Finish(k, DomainStatus(obj[k], op), d, e, Ev("DomainCreateOrUpdate", e, d, op))
  /\ UNCHANGED << Env, Hist >>

\* ------------------------------------------------------ Reconcile, deletion
\* areAccessRequestsInDeletion: MCPAccessRequest
delete_MCPAccessRequest(k) ==
  /\ pc[k] = "del_mcpar"
  /\ \E l \in {RecordLookup(access[RequestFor(k)].mcp), "error"} :
       LET a == areAccessRequestsInDeletion(l, "live", FALSE)
           ev == Ev("MCPAccessRequest", a.err, 0, l)
       IN IF a.err THEN DeleteReturn(k, obj[k], 0, TRUE, ev)
          ELSE IF a.val THEN Goto(k, "teardown", obj[k], pend[k], ev)
          ELSE Goto(k, IF withWorkloadCluster THEN "del_wlar" ELSE "del_carrec",
                    obj[k], pend[k], ev)
  /\ UNCHANGED << Env, Hist >>

\* areAccessRequestsInDeletion: WorkloadAccessRequest
delete_WorkloadAccessRequest(k) ==
  /\ pc[k] = "del_wlar"
  /\ \E l \in {RecordLookup(access[RequestFor(k)].wl), "error"} :
       LET a == areAccessRequestsInDeletion("live", l, TRUE)
           ev == Ev("WorkloadAccessRequest", a.err, 0, l)
       IN IF a.err THEN DeleteReturn(k, obj[k], 0, TRUE, ev)
          ELSE IF a.val THEN Goto(k, "teardown", obj[k], pend[k], ev)
          ELSE Goto(k, "del_carrec", obj[k], pend[k], ev)
  /\ UNCHANGED << Env, Hist >>

\* clusters: r.clusterAccessReconciler.Reconcile
delete_Access(k) ==
  /\ pc[k] = "del_carrec"
  /\ \E out \in CarReconcileOutcomes(access[RequestFor(k)], withWorkloadCluster) :
       LET ev == Ev("Reconcile", out.err, out.delay, "")
       IN /\ access' = [access EXCEPT ![RequestFor(k)] = out.access]
          /\ IF out.err
             THEN DeleteReturn(k, StatusProgressing(obj[k], "ReconcileError", "cluster setup error"),
                               0, TRUE, ev)
             ELSE IF out.delay > 0
             THEN DeleteReturn(k, StatusProgressing(obj[k], "Reconciling", "clusters being setup"),
                               out.delay, FALSE, ev)
             ELSE Goto(k, "del_mcpcl", obj[k], pend[k], ev)
  /\ UNCHANGED << store, withWorkloadCluster, providerConfig, requests, Fan, Helper, Hist >>

\* clusters: r.clusterAccessReconciler.MCPCluster
delete_MCPCluster(k) ==
  /\ pc[k] = "del_mcpcl"
  /\ \E h \in HandleOutcomes :
       LET ev == Ev("MCPCluster", ~HandleUsable(h), 0, h)
       IN IF ~HandleUsable(h)
          THEN DeleteReturn(k, StatusProgressing(obj[k], "ReconcileError", "cluster setup error"),
                            0, TRUE, ev)
          ELSE Goto(k, IF withWorkloadCluster THEN "del_wlcl" ELSE "del_domain",
                    obj[k], pend[k], ev)
  /\ UNCHANGED << Env, Hist >>

\* clusters: r.clusterAccessReconciler.WorkloadCluster
delete_WorkloadCluster(k) ==
  /\ pc[k] = "del_wlcl"
  /\ \E h \in HandleOutcomes :
       LET ev == Ev("WorkloadCluster", ~HandleUsable(h), 0, h)
       IN IF ~HandleUsable(h)
          THEN DeleteReturn(k, StatusProgressing(obj[k], "ReconcileError", "cluster setup error"),
                            0, TRUE, ev)
          ELSE Goto(k, "del_domain", obj[k], pend[k], ev)
  /\ UNCHANGED << Env, Hist >>

\* delete: after the domain Delete and its status patch
AfterDomainDelete(k, o, r, ev) ==
  IF DomainDeleteComplete(r)
  THEN Goto(k, "teardown", o, r, ev)
  ELSE DeleteReturn(k, o, IF r.err THEN 0 ELSE r.delay, r.err, ev)

\* r.serviceProviderReconciler.Delete(ctx, obj, pc, clusters); updateStatus
delete_Domain(k) ==
  /\ pc[k] = "del_domain"
  /\ \E d \in Delays, e \in BOOLEAN, op \in DomainStatusOps :
       LET o == DomainStatus(obj[k], op)
           ev == Ev("DomainDelete", e, d, op)
       IN /\ domDeleteDone' = [domDeleteDone EXCEPT ![k] = @ \/ (~e /\ d = 0)]
          /\ IF NeedsPatch(o, old[k])
             THEN Goto(k, "patch_del", o, Res(d, e), ev)
             ELSE AfterDomainDelete(k, o, Res(d, e), ev)
  /\ UNCHANGED << Env, teardownDone, tracking >>

\* updateStatus inside delete: Status().Patch, then the checks on res, err
updateStatus_Delete(k) ==
  /\ pc[k] = "patch_del"
  /\ \E ok \in BOOLEAN :
       /\ ok => store[k] # Absent
       /\ store' = IF ok
                   THEN [store EXCEPT ![k].status =
                           MergePatch(store[k].status, old[k], obj[k].status)]
                   ELSE store
       /\ LET o == IF ok THEN store'[k] ELSE obj[k]
              ev == Ev("StatusPatch", ~ok, 0, "")
          IN IF PatchEscalates(ok) THEN DeleteReturn(k, o, 0, TRUE, ev)
             ELSE AfterDomainDelete(k, o, pend[k], ev)
  /\ UNCHANGED << access, withWorkloadCluster, providerConfig, requests, Fan, Helper, Hist >>

\* r.clusterAccessReconciler.ReconcileDelete
delete_Teardown(k) ==
  /\ pc[k] = "teardown"
  /\ \E out \in CarDeleteOutcomes(access[RequestFor(k)]) :
       LET r == Res(out.delay, out.err)
           ev == Ev("ReconcileDelete", out.err, out.delay, "")
       IN /\ access' = [access EXCEPT ![RequestFor(k)] = out.access]
          /\ teardownDone' = [teardownDone EXCEPT ![k] = @ \/ (~out.err /\ out.delay = 0)]
          /\ IF TeardownComplete(r)
             THEN Goto(k, "del_update", obj[k], r, ev)
             ELSE DeleteReturn(k, obj[k], IF r.err THEN 0 ELSE r.delay, r.err, ev)
  /\ UNCHANGED << store, withWorkloadCluster, providerConfig, requests, Fan, Helper, domDeleteDone, tracking >>

\* controllerutil.RemoveFinalizer; r.onboardingCluster.Client().Update.
\* The store drops an object whose deletion marker is set once its
\* finalizer is gone.
delete_Update(k) ==
  /\ pc[k] = "del_update"
  /\ \E ok \in BOOLEAN :
       LET o == RemoveFinalizer(obj[k])
           ev == Ev("Update", ~ok, 0, "")
       IN /\ ok => store[k] # Absent
          /\ store' = IF ok
                      THEN [store EXCEPT ![k] =
                              IF store[k].deleted /\ ~o.finalizer THEN Absent
                              ELSE [store[k] EXCEPT !.finalizer = o.finalizer]]
                      ELSE store
          /\ DeleteReturn(k, o, 0, ~ok, ev)
  /\ UNCHANGED << access, withWorkloadCluster, providerConfig, requests, Fan, Helper, Hist >>

\* ------------------------------------------------------------ specification
Next ==
  \/ \E k \in Keys : CreateObject(k)
  \/ \E k \in Keys : MarkDeleted(k)
  \/ \E ev \in Configs \cup {NilConfig}, listOk \in BOOLEAN : MapFunc(ev, listOk)
  \/ \E k \in Keys : Reconcile_Get(k)
  \/ \E k \in Keys : Reconcile_Load(k)
  \/ \E k \in Keys : updateStatus_Return(k)
  \/ \E k \in Keys : createOrUpdate_Finalizer(k)
  \/ \E k \in Keys : createOrUpdate_Access(k)
  \/ \E k \in Keys : createOrUpdate_MCPCluster(k)
  \/ \E k \in Keys : createOrUpdate_WorkloadCluster(k)
  \/ \E k \in Keys : createOrUpdate_Domain(k)
  \/ \E k \in Keys : delete_MCPAccessRequest(k)
  \/ \E k \in Keys : delete_WorkloadAccessRequest(k)
  \/ \E k \in Keys : delete_Access(k)
  \/ \E k \in Keys : delete_MCPCluster(k)
  \/ \E k \in Keys : delete_WorkloadCluster(k)
  \/ \E k \in Keys : delete_Domain(k)
  \/ \E k \in Keys : updateStatus_Delete(k)
  \/ \E k \in Keys : delete_Teardown(k)
  \/ \E k \in Keys : delete_Update(k)

Spec == Init /\ [][Next]_vars

\* ------------------------------------------------ provider configuration
\* the provider configuration a reader of the platform cluster sees in pcObj:
\* none when the object is gone or carries a deletion marker
Effective(pcObj) ==
  IF pcObj = Absent \/ pcObj.deleted THEN NilConfig ELSE pcObj.cfg

\* a platform operator creates the provider configuration or changes it
PutConfig(c) ==
  /\ changes < MaxChanges
  /\ IF platformConfig = Absent THEN TRUE
     ELSE ~platformConfig.deleted /\ platformConfig.cfg # c
  /\ platformConfig' = [cfg |-> c, deleted |-> FALSE]
  /\ pcDirty' = TRUE
  /\ changes' = changes + 1
  /\ UNCHANGED << store, access, withWorkloadCluster, providerConfig, requests,
                  Locals, Hist, Look, Helper,
                  pcrPc, notify, pcrRet, sent, chan, chanCap, evObject, aliased, mapPc >>

\* a platform operator deletes the provider configuration: the store sets the
\* deletion marker while a finalizer holds the object (held), and drops it otherwise
DeleteConfig(held) ==
  /\ changes < MaxChanges
  /\ platformConfig # Absent
  /\ IF platformConfig.deleted THEN ~held ELSE TRUE
  /\ platformConfig' = IF held THEN [platformConfig EXCEPT !.deleted = TRUE] ELSE Absent
  /\ pcDirty' = TRUE
  /\ changes' = changes + 1
  /\ UNCHANGED << store, access, withWorkloadCluster, providerConfig, requests,
                  Locals, Hist, Look, Helper,
                  pcrPc, notify, pcrRet, sent, chan, chanCap, evObject, aliased, mapPc >>

\* outcome of the Get of PCReconciler.Reconcile when it does not fail
ConfigLookup(pcObj) ==
  IF pcObj = Absent THEN "notfound"
  ELSE IF pcObj.deleted THEN "deleted" ELSE "found"

\* mutant of NotifyObject: a configuration with a deletion marker is still sent
NotifyObject_KeepDeleted(l, pcObj) ==
  IF l \in {"found", "deleted"} THEN DeepCopyObject(pcObj.cfg).val ELSE NilConfig

\* notify.Object when the event is sent: set only for a configuration that
\* was found and carries no deletion marker
NotifyObject(l, pcObj) ==
  IF l = "found" THEN DeepCopyObject(pcObj.cfg).val ELSE NilConfig

\* mutant of PublishesOn: nothing is sent when the configuration is not found
PublishesOn_SkipNotFound(l) == l # "notfound"

\* whether Reconcile sends an event on the path the lookup l leads to
PublishesOn(l) == TRUE

\* PCReconciler.Reconcile up to its send statement; a failed Get is retried
\* by the host, which requeues a request that returned an error
PCReconciler_Get(getErr) ==
  /\ pcrPc \in {"idle", "done"}
  /\ pcDirty
  /\ LET l == IF getErr THEN "error" ELSE ConfigLookup(platformConfig) IN
     /\ notify' = NotifyObject(l, platformConfig)
     /\ pcrRet' = Res(0, IgnoreNotFound(l))
     /\ pcrPc' = IF PublishesOn(l) THEN "send" ELSE "done"
     /\ pcDirty' = (l = "error")
  /\ sent' = 0
  /\ UNCHANGED << store, access, withWorkloadCluster, providerConfig, requests,
                  Locals, Hist, Look, Helper,
                  platformConfig, changes, chan, chanCap, evObject, aliased, mapPc >>

\* r.providerUpdateChannel <- notify, the buffer has room; Reconcile returns
PCReconciler_Send ==
  /\ pcrPc = "send"
  /\ Len(chan) < chanCap
  /\ chan' = Append(chan, notify)
  /\ sent' = sent + 1
  /\ pcrPc' = "done"
  /\ UNCHANGED << store, access, withWorkloadCluster, providerConfig, requests,
                  Locals, Hist, Look, Helper,
                  platformConfig, pcDirty, changes, notify, pcrRet, chanCap,
                  evObject, aliased, mapPc >>

\* the channel source takes a buffered event and runs the map function
Receive(listOk) ==
  /\ chan # << >>
  /\ UpdateAndList(Head(chan), listOk)
  /\ chan' = Tail(chan)
  /\ UNCHANGED << store, access, withWorkloadCluster, Locals, Hist, Look, Helper,
                  platformConfig, pcDirty, changes, pcrPc, notify, pcrRet, sent,
                  chanCap, mapPc >>

\* r.providerUpdateChannel <- notify on an unbuffered channel: the send
\* completes when the channel source takes the event, which runs the map
\* function; Reconcile returns
Handoff(listOk) ==
  /\ pcrPc = "send"
  /\ chanCap = 0
  /\ UpdateAndList(notify, listOk)
  /\ sent' = sent + 1
  /\ pcrPc' = "done"
  /\ UNCHANGED << store, access, withWorkloadCluster, Locals, Hist, Look, Helper,
                  platformConfig, pcDirty, changes, notify, pcrRet, chan, chanCap, mapPc >>

\* a holder of the handled event's object writes to it
MutateEventObject(c) ==
  /\ evObject # NilConfig
  /\ evObject # c
  /\ evObject' = c
  /\ providerConfig' = IF aliased THEN c ELSE providerConfig
  /\ UNCHANGED << store, access, withWorkloadCluster, requests,
                  Locals, Hist, Look, Helper, Producer, aliased, mapPc >>

\* both loops and their channel, the managed objects as end users create and
\* delete them
InitFanout == Start(FALSE, 0 .. MaxChanCap, {NoObj}, NewWorlds)

NextFanout ==
  \/ \E k \in Objects : CreateObject(k)
  \/ \E k \in Objects : MarkDeleted(k)
  \/ \E c \in Configs : PutConfig(c)
  \/ \E held \in BOOLEAN : DeleteConfig(held)
  \/ \E getErr \in BOOLEAN : PCReconciler_Get(getErr)
  \/ PCReconciler_Send
  \/ \E listOk \in BOOLEAN : Receive(listOk)
  \/ \E listOk \in BOOLEAN : Handoff(listOk)
  \/ \E c \in Configs : MutateEventObject(c)

SpecFanout == InitFanout /\ [][NextFanout]_vars

\* the two loops and their channel alone
NextConfig ==
  \/ \E c \in Configs : PutConfig(c)
  \/ \E held \in BOOLEAN : DeleteConfig(held)
  \/ \E getErr \in BOOLEAN : PCReconciler_Get(getErr)
  \/ PCReconciler_Send
  \/ \E listOk \in BOOLEAN : Receive(listOk)
  \/ \E listOk \in BOOLEAN : Handoff(listOk)

\* the producer runs whenever it can: a goroutine that is not blocked takes
\* its next step; nothing is assumed of the receiving side
SpecProducerFair ==
  /\ InitFanout
  /\ [][NextConfig]_vars
  /\ WF_vars(PCReconciler_Send)

\* both sides run whenever they can: the host's worker picks up a queued
\* request, a fetch that is retried succeeds in the end, and the channel
\* source keeps receiving
SpecFanoutFair ==
  /\ InitFanout
  /\ [][NextConfig]_vars
  /\ SF_vars(PCReconciler_Get(FALSE))
  /\ WF_vars(PCReconciler_Send)
  /\ WF_vars(\E listOk \in BOOLEAN : Receive(listOk))
  /\ WF_vars(\E listOk \in BOOLEAN : Handoff(listOk))

\* ---------------------------------------------------------- status helpers
\* the helpers of pkg/runtime/status.go applied to objects in any state
Generations == 1 .. MaxGeneration

\* a condition of another type, set by somebody else
OtherCondition == Condition("Synced", "True", 1, "Synced", "in sync")

\* a Ready condition left by an earlier call
ReadyConditions ==
  { Condition(ServiceProviderConditionReady, "True", 1, "ReconcileSuccess",
              "Domain Service is ready"),
    Condition(ServiceProviderConditionReady, "False", 1, "Terminating",
              "Cleanup in progress") }

\* condition lists the store accepts: at most one condition per type
ConditionLists ==
  { << >>, << OtherCondition >> }
    \cup { << r >> : r \in ReadyConditions }
    \cup { << r, OtherCondition >> : r \in ReadyConditions }
    \cup { << OtherCondition, r >> : r \in ReadyConditions }

StatusObjects ==
  { [deleted |-> FALSE, finalizer |-> FALSE, generation |-> g,
     status |-> [phase |-> ph, observedGeneration |-> og, conditions |-> cs]] :
      g \in Generations,
      ph \in {"", StatusPhaseProgressing, StatusPhaseReady, StatusPhaseTerminating},
      og \in 0 .. MaxGeneration,
      cs \in ConditionLists }

\* reasons and messages the reconciler passes to StatusProgressing
Reasons == {"ReconcileError", "Reconciling"}
Messages == {"No ProviderConfig found", "clusters being setup"}

HelperStep(o, call) ==
  /\ helped' = o
  /\ helpedOld' = helped
  /\ helperCall' = call
  /\ UNCHANGED << store, access, withWorkloadCluster, providerConfig, requests,
                  Locals, Hist, Look, Fan >>

Call_StatusProgressing(reason, message) ==
  HelperStep(StatusProgressing(helped, reason, message),
             [op |-> "StatusProgressing", reason |-> reason, message |-> message,
              fresh |-> TRUE])

Call_StatusReady ==
  HelperStep(StatusReady(helped),
             [op |-> "StatusReady", reason |-> "ReconcileSuccess",
              message |-> "Domain Service is ready", fresh |-> TRUE])

Call_StatusTerminating ==
  HelperStep(StatusTerminating(helped),
             [op |-> "StatusTerminating", reason |-> "Terminating",
              message |-> "Cleanup in progress", fresh |-> TRUE])

\* a user changes the spec of the object: the store raises its generation
BumpGeneration ==
  /\ helped.generation < MaxGeneration
  /\ HelperStep([helped EXCEPT !.generation = @ + 1],
                IF helperCall = NoRet THEN NoRet
                ELSE [helperCall EXCEPT !.fresh = FALSE])

InitStatus == Start(FALSE, {0}, StatusObjects, NewWorlds)

NextStatus ==
  \/ \E reason \in Reasons, message \in Messages : Call_StatusProgressing(reason, message)
  \/ Call_StatusReady
  \/ Call_StatusTerminating
  \/ BumpGeneration

SpecStatus == InitStatus /\ [][NextStatus]_vars

\* ------------------------------------------------- concurrent invocations
\* the keys reconciled at the same time (MaxConcurrentReconciles above one)
ConcKeys == {1, 2}

\* an object and its access requests as they are when a request for the
\* object is taken up: just created, reconciled to Ready, or reconciled to
\* Ready and then deleted by the user
ObjectStates(wwc) ==
  LET ready == StatusReady(AddFinalizer(NewObject)) IN
  { [object |-> NewObject, access |-> NoAccess],
    [object |-> ready, access |-> Provision(NoAccess, wwc)],
    [object |-> [ready EXCEPT !.deleted = TRUE], access |-> Provision(NoAccess, wwc)] }

ConcurrentWorlds ==
  UNION {
    { [withWorkloadCluster |-> b,
       store |-> [k \in Objects |-> IF k \in ConcKeys THEN st[k].object ELSE Absent],
       access |-> [k \in Objects |-> IF k \in ConcKeys THEN st[k].access ELSE NoAccess],
       providerConfig |-> c] :
        c \in Configs \cup {NilConfig}, st \in [ConcKeys -> ObjectStates(b)] } :
    b \in BOOLEAN }

\* the host takes up the request for k: one invocation per key
Invoke(k) ==
  /\ pc[k] = "idle"
  /\ Reconcile_Get(k)

InitConcurrent == Start(TRUE, {0}, {NoObj}, ConcurrentWorlds)

NextConcurrent ==
  \/ \E k \in ConcKeys : Invoke(k)
  \/ \E k \in ConcKeys : Reconcile_Load(k)
  \/ \E k \in ConcKeys : updateStatus_Return(k)
  \/ \E k \in ConcKeys : createOrUpdate_Finalizer(k)
  \/ \E k \in ConcKeys : createOrUpdate_Access(k)
  \/ \E k \in ConcKeys : createOrUpdate_MCPCluster(k)
  \/ \E k \in ConcKeys : createOrUpdate_WorkloadCluster(k)
  \/ \E k \in ConcKeys : createOrUpdate_Domain(k)
  \/ \E k \in ConcKeys : delete_MCPAccessRequest(k)
  \/ \E k \in ConcKeys : delete_WorkloadAccessRequest(k)
  \/ \E k \in ConcKeys : delete_Access(k)
  \/ \E k \in ConcKeys : delete_MCPCluster(k)
  \/ \E k \in ConcKeys : delete_WorkloadCluster(k)
  \/ \E k \in ConcKeys : delete_Domain(k)
  \/ \E k \in ConcKeys : updateStatus_Delete(k)
  \/ \E k \in ConcKeys : delete_Teardown(k)
  \/ \E k \in ConcKeys : delete_Update(k)

SpecConcurrent == InitConcurrent /\ [][NextConcurrent]_vars

\* ------------------------------------------------------- reading the log
Done(k) == pc[k] = "done"

Has(k, op) == \E i \in DOMAIN log[k] : log[k][i].op = op

\* the invocation took the create/update branch, resp. the deletion branch
CreatePath(k) == Has(k, "CreateOrUpdate")
DeletePath(k) == Has(k, "MCPAccessRequest")

\* the invocation found no cached configuration
NoConfig(k) == Len(log[k]) >= 2 /\ log[k][2].op = "Load" /\ log[k][2].val = NilConfig

Complete(e) == ~e.err /\ e.delay = 0

FinalizerStored(k) == store[k] # Absent /\ store[k].finalizer

\* the store's finalizer of k goes away in this step
FinalizerDropped(k) ==
  /\ FinalizerStored(k)
  /\ ~FinalizerStored(k)'

\* the last call of the invocation other than a status patch
LastOp(k) ==
  LET I == { i \in DOMAIN log[k] : log[k][i].op # "StatusPatch" }
  IN log[k][CHOOSE i \in I : \A j \in I : j <= i]

\* ------------------------------------------------------------------ claims

\* C1 (as stated): at the end of a deletion-path invocation the finalizer has
\* been removed if and only if the domain Delete and the access teardown have
\* each completed (zero delay, no error) at least once since the deletion
\* marker was set.
C1_Original ==
  \A k \in Keys :
    (Done(k) /\ DeletePath(k)) =>
      ( (Has(k, "Update") /\ ~LastOp(k).err)
          <=> (domDeleteDone[k] /\ teardownDone[k]) )

\* C1 (amended): the store's finalizer goes away only in the Update step of
\* delete, right after a ReconcileDelete of the same invocation that returned
\* zero delay and no error, which itself came after a completed domain Delete
\* of that invocation or after a lookup that found the access records in
\* deletion; and an invocation that gets to that Update removes the finalizer
\* exactly when the Update succeeds.
C1_FinalizerRemoval ==
  [][ \A k \in Keys :
        /\ FinalizerDropped(k) =>
             /\ pc[k] = "del_update"
             /\ teardownDone[k]
             /\ LET L == log[k]
                    n == Len(L)
                IN /\ L[n].op = "ReconcileDelete" /\ Complete(L[n])
                   /\ \E j \in 1 .. (n - 1) :
                        \/ L[j].op = "DomainDelete" /\ Complete(L[j])
                        \/ /\ L[j].op \in {"MCPAccessRequest", "WorkloadAccessRequest"}
                           /\ L[j].val \in {"notfound", "deleting"}
        /\ (pc[k] = "del_update" /\ pc'[k] = "done")
             => (FinalizerDropped(k) <=> ~ret'[k].err)
    ]_vars

\* C1 witness: an invocation that ran the domain Delete to completion, then
\* the teardown, and removed the finalizer
C1_Witness ==
  \E k \in Keys :
    /\ Done(k) /\ store[k] = Absent
    /\ Has(k, "Update") /\ ~LastOp(k).err
    /\ \E j \in DOMAIN log[k] : log[k][j].op = "DomainDelete" /\ Complete(log[k][j])

\* C2: when ReconcileDelete returns an error or a positive delay, the
\* invocation issues no Update, and the finalizer is still in the store
\* after it.
C2_TeardownPendingKeepsFinalizer ==
  \A k \in Keys :
    (Done(k) /\ \E i \in DOMAIN log[k] :
                  log[k][i].op = "ReconcileDelete" /\ ~Complete(log[k][i]))
      => /\ ~Has(k, "Update")
         /\ LastOp(k).op = "ReconcileDelete"
         /\ FinalizerStored(k)

\* C2 witness: an invocation that ended on a pending teardown
C2_Witness ==
  \E k \in Keys :
    /\ Done(k) /\ LastOp(k).op = "ReconcileDelete"
    /\ LastOp(k).delay > 0 /\ ret[k] = Res(LastOp(k).delay, FALSE)

\* the lookups of the invocation found the access records not in deletion
AccessNotInDeletion(k) ==
  /\ \E i \in DOMAIN log[k] :
       log[k][i].op = "MCPAccessRequest" /\ log[k][i].val = "live"
  /\ withWorkloadCluster =>
       \E i \in DOMAIN log[k] :
         log[k][i].op = "WorkloadAccessRequest" /\ log[k][i].val = "live"

AccessLive(k) ==
  /\ access[k].mcp = "live"
  /\ withWorkloadCluster => access[k].wl = "live"

\* C3: in a deletion invocation that found the access records not in
\* deletion, ReconcileDelete is called only after the domain Delete of that
\* invocation returned no error and zero delay; when the domain Delete
\* returns an error or a positive delay, ReconcileDelete is not called and
\* the access records stay live.
C3_TeardownAfterDomainDelete ==
  \A k \in Keys :
    AccessNotInDeletion(k) =>
      LET L == log[k]
      IN /\ \A i \in DOMAIN L :
              L[i].op = "ReconcileDelete" =>
                \E j \in 1 .. (i - 1) : L[j].op = "DomainDelete" /\ Complete(L[j])
         /\ (\E j \in DOMAIN L : L[j].op = "DomainDelete" /\ ~Complete(L[j]))
              => /\ ~Has(k, "ReconcileDelete")
                 /\ AccessLive(k)
                 /\ pc[k] \in {"patch_del", "done"}

\* C3 witness: the domain Delete asked for a requeue and the invocation
\* returned that delay with the access records live
C3_Witness ==
  \E k \in Keys :
    /\ Done(k) /\ AccessNotInDeletion(k)
    /\ LastOp(k).op = "DomainDelete" /\ LastOp(k).delay > 0 /\ ~LastOp(k).err
    /\ ret[k] = Res(LastOp(k).delay, FALSE)
    /\ AccessLive(k)

\* C4: on the create/update branch the collaborator's Reconcile and the
\* domain CreateOrUpdate are called only after the finalizer write
\* succeeded, and the finalizer is in the store whenever one of them has
\* been called; after a failed finalizer write neither is called.
C4_FinalizerBeforeProvisioning ==
  \A k \in Keys :
    CreatePath(k) =>
      LET L == log[k]
      IN /\ \A i \in DOMAIN L :
              L[i].op \in {"Reconcile", "MCPCluster", "WorkloadCluster",
                           "DomainCreateOrUpdate"} =>
                /\ \E j \in 1 .. (i - 1) : L[j].op = "CreateOrUpdate" /\ ~L[j].err
                /\ FinalizerStored(k)
         /\ (\E j \in DOMAIN L : L[j].op = "CreateOrUpdate" /\ L[j].err)
              => /\ ~Has(k, "Reconcile")
                 /\ ~Has(k, "DomainCreateOrUpdate")

\* C4 witness: the finalizer was written by this invocation and the domain
\* CreateOrUpdate was called afterwards
C4_Witness ==
  \E k \in Keys :
    /\ \E j \in DOMAIN log[k] :
         log[k][j].op = "CreateOrUpdate" /\ log[k][j].val = "updated"
    /\ Has(k, "Reconcile") /\ Has(k, "DomainCreateOrUpdate")

\* C5: after a create/update invocation that returns no error the finalizer
\* is in the store, also when the invocation ended early with a requeue.
C5_FinalizerAfterCreateOrUpdate ==
  \A k \in Keys :
    (Done(k) /\ CreatePath(k) /\ ~ret[k].err) => FinalizerStored(k)

\* C5 witness: an invocation that ended early because access is not ready
C5_Witness ==
  \E k \in Keys :
    /\ Done(k) /\ CreatePath(k) /\ ~ret[k].err
    /\ LastOp(k).op = "Reconcile" /\ LastOp(k).delay > 0
    /\ ~store[k].deleted

NoConfigStatus ==
  [phase |-> StatusPhaseProgressing, observedGeneration |-> 1,
   conditions |-> << Condition(ServiceProviderConditionReady, "False", 1,
                               "ReconcileError", "No ProviderConfig found") >>]

PatchCount(k) == Cardinality({ i \in DOMAIN log[k] : log[k][i].op = "StatusPatch" })

\* C6 (as stated): with no cached configuration, Reconcile of a live object
\* returns an error with zero delay, sets the status to Progressing / Ready
\* False / "No ProviderConfig found", attempts one status patch, leaves the
\* finalizer absent and calls neither the collaborator nor the domain
\* reconciler.
C6_Original ==
  \A k \in Keys :
    (Done(k) /\ NoConfig(k) /\ ~obj[k].deleted) =>
      /\ ret[k] = Res(0, TRUE)
      /\ obj[k].status = NoConfigStatus
      /\ PatchCount(k) = 1
      /\ ~obj[k].finalizer
      /\ Len(log[k]) = 3

\* C6 (amended): ... attempts a status patch exactly when that status
\* differs from the status fetched at the start (one patch at most), writes
\* no finalizer (an object fetched without one still has none, one fetched
\* with it keeps it) and calls neither the collaborator nor the domain
\* reconciler.
C6_NoConfig ==
  \A k \in Keys :
    (Done(k) /\ NoConfig(k) /\ ~obj[k].deleted) =>
      /\ ret[k] = Res(0, TRUE)
      /\ obj[k].status = NoConfigStatus
      /\ PatchCount(k) = (IF old[k] # NoConfigStatus THEN 1 ELSE 0)
      /\ Len(log[k]) = 2 + PatchCount(k)
      /\ store[k] # Absent => store[k].finalizer = obj[k].finalizer

\* C6 witness: the first reconciliation of a new object with no cached
\* configuration: one patch, no finalizer
C6_Witness ==
  \E k \in Keys :
    /\ Done(k) /\ NoConfig(k) /\ ~obj[k].deleted
    /\ old[k] = EmptyStatus /\ PatchCount(k) = 1
    /\ store[k] # Absent /\ ~store[k].finalizer
    /\ store[k].status = NoConfigStatus

\* the collaborator returned the managed-control-plane handle as nil
NilHandle(k) ==
  \E i \in DOMAIN log[k] : log[k][i].op = "MCPCluster" /\ log[k][i].val = "nil"

C8_RequeueDelay ==
  \A k \in Keys :
    (Done(k) /\ Len(log[k]) >= 2 /\ ~NoConfig(k) /\ ~ret[k].err) =>
      ret[k].delay = IF LastOp(k).delay > 0 THEN LastOp(k).delay
                     ELSE log[k][2].val.pollInterval

\* C8 witness: the domain CreateOrUpdate returned zero delay and the poll
\* interval is 5: Reconcile returns 5
C8_Witness ==
  \E k \in Keys :
    /\ Done(k) /\ LastOp(k).op = "DomainCreateOrUpdate"
    /\ Complete(LastOp(k))
    /\ log[k][2].val.pollInterval = 5
    /\ ret[k] = Res(5, FALSE)

\* C9: an error is never returned together with a positive requeue delay.
C9_ErrorWithoutDelay ==
  \A k \in Keys : (ret[k] # NoRet /\ ret[k].err) => ret[k].delay = 0

\* C9 witness: the domain CreateOrUpdate returned an error and a positive
\* delay, Reconcile returned the error
C9_Witness ==
  \E k \in Keys :
    /\ Done(k) /\ ret[k].err
    /\ LastOp(k).op = "DomainCreateOrUpdate" /\ LastOp(k).err /\ LastOp(k).delay > 0

\* C10: the step that patches the status goes on the same way whether the
\* patch succeeds or fails: where the invocation continues and what it
\* returns are given by res, err of the operation before the patch alone,
\* and the step touches nothing in the store but the status of the object.
C10_PatchFailureIgnored ==
  [][ \A k \in Keys :
        (pc[k] \in {"patch_ret", "patch_del"} /\ pc'[k] # pc[k]) =>
          LET goesOn == pc[k] = "patch_del" /\ ~pend[k].err /\ pend[k].delay = 0
          IN /\ pc'[k] = IF goesOn THEN "teardown" ELSE "done"
             /\ ~goesOn =>
                  ret'[k] = IF pend[k].err THEN Res(0, TRUE)
                            ELSE IF pend[k].delay > 0 THEN Res(pend[k].delay, FALSE)
                            ELSE Res(cfg[k].pollInterval, FALSE)
             /\ (store'[k] = Absent) <=> (store[k] = Absent)
             /\ store[k] # Absent =>
                  /\ store'[k].finalizer = store[k].finalizer
                  /\ store'[k].deleted = store[k].deleted
             /\ pc[k] = "patch_del" =>
                  /\ obj'[k].finalizer = obj[k].finalizer
                  /\ obj'[k].deleted = obj[k].deleted
             /\ access' = access
             /\ providerConfig' = providerConfig
    ]_vars

\* C10 witness: a status patch failed and Reconcile returned no error
C10_Witness ==
  \E k \in Keys :
    /\ Done(k) /\ ~ret[k].err
    /\ \E i \in DOMAIN log[k] : log[k][i].op = "StatusPatch" /\ log[k][i].err

\* ---------------------------------------------------------------------- C11
\* C11: when the object named by the request does not exist, Reconcile
\* returns no delay and no error and does nothing else: the lookup is the
\* only call of the invocation (no status patch, no finalizer write, no call
\* to the collaborator or the domain reconciler), whatever the cache holds.
C11_NotFoundIsNoOp ==
  \A k \in Keys :
    (Done(k) /\ log[k][1].val = "notfound") =>
      /\ ret[k] = Res(0, FALSE)
      /\ log[k] = << Ev("Get", FALSE, 0, "notfound") >>

C11_Witness ==
  \E k \in Keys :
    /\ Done(k) /\ log[k][1].val = "notfound"
    /\ providerConfig \in Configs

\* ---------------------------------------------------------------------- C12
\* the program with the look-back history recorded
InitRepeat == Start(TRUE, {0}, {NoObj}, NewWorlds)

SpecRepeat == InitRepeat /\ [][Next]_vars

\* the invocation of k that has returned repeats the one before it: the object
\* is as that one left it and every call was answered as it was then
Repeats(k) ==
  /\ Done(k) /\ prev[k] # NoRet
  /\ prev[k].calls = Responses(log[k])
  /\ log[k][1].val = "found"

\* a status patch is issued by the step
Patches(k) == PatchCount(k)' > PatchCount(k)

\* C12 (as stated): an invocation that repeats the previous one issues no
\* status patch, and a patch is issued only when the status differs from the
\* status fetched at the start of the invocation.
C12_Original ==
  /\ [](\A k \in Keys : Repeats(k) => PatchCount(k) = 0)
  /\ [][\A k \in Keys : Patches(k) => obj[k].status # old[k]]_vars

\* C12 (amended): an invocation that repeats the previous one issues no status
\* patch when every patch of the previous one was stored; a patch is issued
\* only when the status differs from the status fetched at the start, and at
\* most once per invocation.
C12_IdempotentStatus ==
  /\ [](\A k \in Keys : (Repeats(k) /\ prev[k].patched) => PatchCount(k) = 0)
  /\ [](\A k \in Keys : PatchCount(k) <= 1)
  /\ [][\A k \in Keys : Patches(k) => obj[k].status # old[k]]_vars

\* a repeated invocation after one whose patch was stored
C12_Witness ==
  \E k \in Keys :
    /\ Repeats(k) /\ prev[k].patched
    /\ Has(k, "DomainCreateOrUpdate")
    /\ store[k] # Absent /\ store[k].status.phase = StatusPhaseReady

\* ---------------------------------------------------------------------- C13
\* the step is the fan-out consumer handling an event: a buffered event is
\* taken, or the sender's event is taken on an unbuffered channel
Received == chan # << >> /\ chan' = Tail(chan)
HandedOff == chanCap = 0 /\ pcrPc = "send" /\ pcrPc' = "done"
Handled == Received \/ HandedOff

\* the object of the event being handled
Payload == IF chan # << >> THEN Head(chan) ELSE notify

\* C13: after the fan-out consumer has handled an event the cached pointer
\* equals the event's payload by value, and is nil when the event carries
\* none; a later write to the event's object leaves the cached value as it is.
C13_CacheIsCopyOfPayload ==
  [][ /\ Handled => providerConfig' = Payload
      /\ (~Handled /\ evObject' # evObject) => providerConfig' = providerConfig ]_vars

\* the event's object was written after it was handled; the cache kept the payload
C13_Witness ==
  /\ providerConfig \in Configs
  /\ evObject \in Configs
  /\ evObject # providerConfig

\* ---------------------------------------------------------------------- C14
\* the managed objects that exist
Existing == { k \in Objects : store[k] # Absent }

\* reqs holds one request per existing object: none missing, none twice
OnePerObject(reqs) ==
  /\ Len(reqs) = Cardinality(Existing)
  /\ { reqs[i] : i \in DOMAIN reqs } = Existing

C15_OneEventPerInvocation ==
  /\ pcrPc = "send" => sent = 0
  /\ pcrPc = "done" => (sent = 1 /\ pcrRet.delay = 0)

\* an invocation that did not find the configuration has returned
C15_Witness ==
  /\ pcrPc = "done" /\ sent = 1
  /\ pcrRet = Res(0, FALSE)
  /\ platformConfig = Absent /\ ~pcDirty
  /\ notify = NilConfig

\* ---------------------------------------------------------------------- C16
\* C16: the producer does not block for ever on a receiver that is slow or
\* absent: every invocation of PCReconciler.Reconcile that has reached its
\* send statement returns in the end, whether or not the event is taken.
C16_ProducerReturns == (pcrPc = "send") ~> (pcrPc = "done")

\* ---------------------------------------------------------------------- C17
\* C17: the cached configuration does not stay stale: once the changes to the
\* provider configuration have stopped, with the secondary loop invoked for
\* the last change and the consumer draining the channel, the cached pointer
\* comes to equal the final configuration (nil when it is deleted) and stays so.
C17_CacheConverges == <>[](providerConfig = Effective(platformConfig))

\* the last change has been propagated and the cache holds it
C17_Witness ==
  /\ changes = MaxChanges
  /\ ~pcDirty /\ pcrPc = "done" /\ chan = << >>
  /\ providerConfig \in Configs
  /\ providerConfig = Effective(platformConfig)

\* ---------------------------------------------------------------------- C18
\* the step is the return of the invocation of k
Returns(k) == pc[k] # "done" /\ pc'[k] = "done"

\* the calls whose failure the claim names: the cache load, the collaborator
\* and its handles, the domain reconciler, the teardown
SurfacedCalls ==
  {"Load", "Reconcile", "MCPCluster", "WorkloadCluster",
   "DomainCreateOrUpdate", "DomainDelete", "ReconcileDelete"}

\* the status block reports a failure: phase Progressing, Ready condition
\* False with a reason and a message
ReportsFailure(st) ==
  LET i == FindStatusCondition(st.conditions, ServiceProviderConditionReady) IN
  /\ st.phase = StatusPhaseProgressing
  /\ i # 0
  /\ st.conditions[i].status = "False"
  /\ st.conditions[i].reason # ""
  /\ st.conditions[i].message # ""

\* C18: whenever Reconcile of an existing object returns an error (missing
\* configuration, cluster-access error or missing handle on either path,
\* domain error, teardown error) and no status patch failed, the stored
\* status of the object at the return has phase Progressing and the Ready
\* condition False with a reason and a message.
C18_FailuresSurface ==
  [][ \A k \in Keys :
        ( /\ Returns(k)
          /\ ret'[k].err
          /\ LastOp(k)'.op \in SurfacedCalls
          /\ Summary(log'[k]).patched
          /\ store'[k] # Absent )
        => ReportsFailure(store'[k].status) ]_vars

\* ---------------------------------------------------------------------- C19
\* the Ready conditions of a status block
ReadyIndexes(st) ==
  { i \in DOMAIN st.conditions : st.conditions[i].type = ServiceProviderConditionReady }

\* the conditions of the other types, in order
OtherConditions(st) ==
  SelectSeq(st.conditions, LAMBDA c : c.type # ServiceProviderConditionReady)

\* the condition status and the phase each helper stands for
HelperBool(op) == IF op = "StatusReady" THEN "True" ELSE "False"
HelperPhase(op) ==
  CASE op = "StatusProgressing" -> StatusPhaseProgressing
    [] op = "StatusReady"       -> StatusPhaseReady
    [] op = "StatusTerminating" -> StatusPhaseTerminating

\* C19: a helper call leaves exactly one Ready condition, which carries the
\* helper's boolean, the reason and message, and the object's generation;
\* observedGeneration of the status is the object's generation, the phase is
\* the helper's, and the conditions of other types are as before.  After any
\* sequence of calls the phase is Ready iff the Ready condition is True.
C19_StatusHelpers ==
  helperCall # NoRet =>
    LET st == helped.status
        i == FindStatusCondition(st.conditions, ServiceProviderConditionReady)
    IN /\ Cardinality(ReadyIndexes(st)) = 1
       /\ (st.phase = StatusPhaseReady) <=> (st.conditions[i].status = "True")
       /\ helperCall.fresh =>
            /\ st.conditions[i] =
                 Condition(ServiceProviderConditionReady, HelperBool(helperCall.op),
                           helped.generation, helperCall.reason, helperCall.message)
            /\ st.observedGeneration = helped.generation
            /\ st.phase = HelperPhase(helperCall.op)
            /\ OtherConditions(st) = OtherConditions(helpedOld.status)
            /\ helped.generation = helpedOld.generation

\* StatusReady on an object that had a False Ready condition behind a
\* condition of another type
C19_Witness ==
  /\ helperCall # NoRet /\ helperCall.fresh /\ helperCall.op = "StatusReady"
  /\ Len(helpedOld.status.conditions) = 2
  /\ helpedOld.status.conditions[2].status = "False"
  /\ helped.status.conditions[2].status = "True"
  /\ helped.generation = MaxGeneration

\* ---------------------------------------------------------------------- C20
\* the step belongs to the invocation of k
Acts(k) == log'[k] # log[k]

\* the loaded configuration of the invocation of k, NilConfig before the load
Loaded(k) == IF Len(log[k]) >= 2 THEN log[k][2].val ELSE NilConfig

\* what Reconcile of k returns when it runs alone and is answered as in log[k]
SequentialRet(k) ==
  IF NoConfig(k) THEN Res(0, TRUE)
  ELSE ReconcileResult(LastOp(k).delay, LastOp(k).err, PollOf(Loaded(k)))

\* the object the store holds after Reconcile of k has run alone on the
\* object it fetched, answered as in log[k]
SequentialObject(k) ==
  LET lg == log[k]
      Ok(op) == \E i \in DOMAIN lg : lg[i].op = op /\ ~lg[i].err
      wrote == \E i \in DOMAIN lg :
                 lg[i].op = "CreateOrUpdate" /\ ~lg[i].err /\ lg[i].val = "updated"
      o1 == IF wrote THEN AddFinalizer(fetched[k]) ELSE fetched[k]
      D == { i \in DOMAIN lg : lg[i].op \in {"DomainCreateOrUpdate", "DomainDelete"} }
      o2 == IF NoConfig(k)
            THEN StatusProgressing(o1, "ReconcileError", "No ProviderConfig found")
            ELSE IF D # {} THEN DomainStatus(o1, lg[CHOOSE i \in D : TRUE].val)
            ELSE o1
  IN IF lg[1].val # "found" THEN fetched[k]
     ELSE IF Ok("Update") THEN Absent
     ELSE IF Ok("StatusPatch") THEN o2
     ELSE o1

\* C20: while invocations for different keys interleave, every step of the
\* invocation of k leaves the objects, the access requests and the
\* invocations of the other keys alone, and when the invocation of k has
\* returned, its result and the stored object of k are those of the same
\* invocation run alone under the same cached configuration.
C20_KeysAreIndependent ==
  /\ [][ \A k \in ConcKeys : Acts(k) =>
            \A j \in Objects \ {k} :
              /\ store'[j] = store[j]
              /\ access'[j] = access[j]
              /\ log'[j] = log[j] /\ ret'[j] = ret[j] /\ pc'[j] = pc[j] ]_vars
  /\ [](\A k \in ConcKeys : Done(k) =>
            /\ ret[k] = SequentialRet(k)
            /\ store[k] = SequentialObject(k))

\* a create/update invocation and a deletion invocation of two keys are
\* under way at once, each past its first write
C20_Witness ==
  /\ pc[1] \notin {"idle", "done"} /\ pc[2] \notin {"idle", "done"}
  /\ Has(1, "Reconcile") /\ CreatePath(1)
  /\ Has(2, "DomainDelete") /\ DeletePath(2)

\* ---------------------------------------------------------------------- C21
\* a lookup of the invocation found an access record in deletion
InDeletionSeen(k) ==
  \E i \in DOMAIN log[k] :
    /\ log[k][i].op \in {"MCPAccessRequest", "WorkloadAccessRequest"}
    /\ log[k][i].val \in {"notfound", "deleting"}

\* the ReconcileDelete of the invocation returned zero delay and no error
TeardownReported(k) ==
  \E i \in DOMAIN log[k] : log[k][i].op = "ReconcileDelete" /\ Complete(log[k][i])

\* the invocation called neither the collaborator's Reconcile nor the domain
\* Delete, and has called ReconcileDelete once it has returned
SkipsToTeardown(k) ==
  /\ ~Has(k, "Reconcile") /\ ~Has(k, "MCPCluster") /\ ~Has(k, "WorkloadCluster")
  /\ ~Has(k, "DomainDelete")
  /\ pc[k] \in {"teardown", "del_update", "done"}
  /\ Done(k) => Has(k, "ReconcileDelete")

\* C21 (as stated): a deletion invocation whose lookups find the access
\* records in deletion calls neither the collaborator's Reconcile nor the
\* domain Delete, calls ReconcileDelete, and when ReconcileDelete returns
\* zero delay and no error the finalizer is removed in that invocation.
C21_Original ==
  /\ [](\A k \in Keys : InDeletionSeen(k) => SkipsToTeardown(k))
  /\ [][ \A k \in Keys :
           (InDeletionSeen(k) /\ TeardownReported(k) /\ Returns(k))
             => FinalizerDropped(k) ]_vars

\* C21 (amended): ... and when ReconcileDelete returns zero delay and no
\* error the invocation issues the Update that removes the finalizer; the
\* finalizer is gone when that Update succeeds, and when it fails the
\* finalizer stays and the invocation returns the error.
C21_AccessInDeletion ==
  /\ [](\A k \in Keys : InDeletionSeen(k) =>
          /\ SkipsToTeardown(k)
          /\ (Done(k) /\ TeardownReported(k)) => LastOp(k).op = "Update")
  /\ [][ \A k \in Keys :
           (InDeletionSeen(k) /\ TeardownReported(k) /\ Returns(k))
             => /\ FinalizerDropped(k) <=> ~ret'[k].err
                /\ ret'[k].err => FinalizerStored(k)' ]_vars

\* the access records were not found, the teardown reported completion and
\* the finalizer was removed, all in one invocation
C21_Witness ==
  \E k \in Keys :
    /\ Done(k) /\ store[k] = Absent /\ Len(log[k]) = 5
    /\ log[k][3].op = "MCPAccessRequest" /\ log[k][3].val = "notfound"
    /\ log[k][4].op = "ReconcileDelete" /\ Complete(log[k][4])
    /\ log[k][5].op = "Update" /\ ~log[k][5].err
    /\ ret[k] = Res(PollOf(cfg[k]), FALSE)

\* ---------------------------------------------------------------------- C22
\* the step is PCReconciler.Reconcile building its event
BuildsEvent == pcrPc # "send" /\ pcrPc' = "send"

\* C22: the event PCReconciler.Reconcile publishes carries no payload if and
\* only if the configuration object is absent or carries a deletion marker,
\* and in every other case it carries a copy of the configuration object as
\* it is when the invocation fetches it.
C22_TombstoneOnlyWhenGone ==
  [][ BuildsEvent => notify' = Effective(platformConfig) ]_vars

\* ---------------------------------------------------------------------- C23
DomainCalls == {"DomainCreateOrUpdate", "DomainDelete"}

\* the collaborator answered the lookup op of the invocation with h
Handle(k, op, h) ==
  \E i \in DOMAIN log[k] : log[k][i].op = op /\ log[k][i].val = h

\* C23: the domain CreateOrUpdate and Delete are called only after the
\* collaborator returned a managed-control-plane handle, and a workload
\* handle when a workload cluster is required; the workload handle is never
\* looked up when none is required; and an invocation that was handed a nil
\* handle without error makes no domain call and returns an error.
C23_DomainCallsHaveHandles ==
  \A k \in Keys :
    LET L == log[k] IN
    /\ \A i \in DOMAIN L :
         L[i].op \in DomainCalls =>
           /\ \E j \in 1 .. (i - 1) : L[j].op = "MCPCluster" /\ L[j].val = "handle"
           /\ withWorkloadCluster =>
                \E j \in 1 .. (i - 1) : L[j].op = "WorkloadCluster" /\ L[j].val = "handle"
    /\ ~withWorkloadCluster => ~Has(k, "WorkloadCluster")
    /\ (Handle(k, "MCPCluster", "nil") \/ Handle(k, "WorkloadCluster", "nil")) =>
         /\ \A i \in DOMAIN L : L[i].op \notin DomainCalls
         /\ pc[k] \in {"patch_ret", "done"}
         /\ Done(k) => ret[k] = Res(0, TRUE)

\* the workload handle came back nil without error on the deletion path and
\* Reconcile returned an error
C23_Witness ==
  \E k \in Keys :
    /\ Done(k) /\ DeletePath(k) /\ withWorkloadCluster
    /\ Handle(k, "MCPCluster", "handle") /\ Handle(k, "WorkloadCluster", "nil")
    /\ ret[k] = Res(0, TRUE)

\* ------------------------------------- the map function, statement by statement
\* number of events the channel source hands to the map function
MaxEvents == 2

\* mutant of MapFuncOrder: the cache is replaced after the requests are queued
MapFuncOrder_StoreLast == << "list", "enqueue", "store" >>

\* the map function replaces the cache, lists the objects and returns the
\* requests, which the handler then adds to the queue
MapFuncOrder == << "store", "list", "enqueue" >>

\* the statement the map function is at
MapFuncAt(s) == mapPc > 0 /\ MapFuncOrder[mapPc] = s

MapFuncAdvance == mapPc' = IF mapPc = Len(MapFuncOrder) THEN 0 ELSE mapPc + 1

\* the channel source takes the next event and calls the map function with
\* its object
Source_Event(ev) ==
  /\ mapPc = 0
  /\ Len(order.events) < MaxEvents
  /\ evObject' = ev
  /\ order' = [order EXCEPT !.events = Append(@, ev)]
  /\ mapPc' = 1
  /\ UNCHANGED << store, access, withWorkloadCluster, providerConfig, requests,
                  Locals, Hist, Helper, Producer, aliased, prev, touched, fetched >>

\* r.providerConfig.Store(&c), resp. Store(nil)
MapFunc_Store ==
  /\ MapFuncAt("store")
  /\ providerConfig' = IF evObject # NilConfig THEN DeepCopyObject(evObject).val
                       ELSE NilConfig
  /\ aliased' = (evObject # NilConfig /\ DeepCopyObject(evObject).shared)
  /\ order' = [order EXCEPT !.cached = Len(order.events)]
  /\ MapFuncAdvance
  /\ UNCHANGED << store, access, withWorkloadCluster, requests,
                  Locals, Hist, Helper, Producer, evObject, prev, touched, fetched >>

\* r.onboardingCluster.Client().List and the loop that fills reqs
MapFunc_List(listOk) ==
  /\ MapFuncAt("list")
  /\ requests' = IF listOk THEN Requests(ListItems(NumObjects)) ELSE << >>
  /\ MapFuncAdvance
  /\ UNCHANGED << store, access, withWorkloadCluster, providerConfig,
                  Locals, Hist, Look, Helper, Producer, evObject, aliased >>

\* the map function returns reqs and the handler adds each to the queue
MapFunc_Enqueue ==
  /\ MapFuncAt("enqueue")
  /\ order' = [order EXCEPT !.queued =
                 [k \in Objects |->
                    IF \E i \in DOMAIN requests : requests[i] = k
                    THEN Len(order.events) ELSE order.queued[k]]]
  /\ MapFuncAdvance
  /\ UNCHANGED << store, access, withWorkloadCluster, providerConfig, requests,
                  Locals, Hist, Helper, Producer, evObject, aliased,
                  prev, touched, fetched >>

\* the channel source and the start of the invocations of the primary loop,
\* up to the point where an invocation has loaded the cache and, with no
\* configuration, returned; what an invocation does with a configuration it
\* loaded touches neither the cache nor the queue and is followed in Spec
NextOrder ==
  \/ \E k \in Keys : CreateObject(k)
  \/ \E k \in Keys : MarkDeleted(k)
  \/ \E ev \in Configs \cup {NilConfig} : Source_Event(ev)
  \/ MapFunc_Store
  \/ \E listOk \in BOOLEAN : MapFunc_List(listOk)
  \/ MapFunc_Enqueue
  \/ \E k \in Keys : Reconcile_Get(k)
  \/ \E k \in Keys : Reconcile_Load(k)
  \/ \E k \in Keys : updateStatus_Return(k)

SpecOrder == Init /\ [][NextOrder]_vars

\* ---------------------------------------------------------------------- C24
\* the invocation of k has loaded the cache
HasLoaded(k) == Len(log[k]) >= 2 /\ log[k][2].op = "Load"

\* C24: the cached pointer is the payload of the event stored last, and an
\* invocation that was handed a request queued for event e has loaded the
\* payload of e or of a later event (nil for a tombstone), never that of an
\* earlier one.
C24_LoadsEventOrLater ==
  /\ order.cached > 0 => providerConfig = order.events[order.cached]
  /\ \A k \in Objects :
       (HasLoaded(k) /\ order.taken[k] > 0) =>
         /\ order.loaded[k] >= order.taken[k]
         /\ log[k][2].val = order.events[order.loaded[k]]

\* an invocation was handed the request queued for the first event and
\* loaded the payload of the second, which differs
C24_Witness ==
  \E k \in Objects :
    /\ HasLoaded(k)
    /\ order.taken[k] = 1 /\ order.loaded[k] = 2
    /\ order.events[1] # order.events[2]
    /\ log[k][2].val = order.events[2]

\* ---------------------------------------------------------------------- C25
\* the configuration the invocation of k loaded
LoadedConfig(k) == log[k][2].val

\* the invocation reached the poll-interval fallback
Fallback(k) == Done(k) /\ ~ret[k].err /\ LastOp(k).delay = 0

\* C25: while the map function replaces the cache, an invocation keeps the
\* one snapshot it loaded: the configuration it works with, which it hands to
\* the domain reconciler, is the whole payload it loaded and no mix of two
\* payloads, the fallback delay is the poll interval of that same payload,
\* and an invocation that loaded nil treats the configuration as missing
\* whatever the cache holds later.
C25_OneSnapshot ==
  \A k \in Keys :
    HasLoaded(k) =>
      /\ LoadedConfig(k) \in Configs \cup {NilConfig}
      /\ pc[k] # "load" => cfg[k] = LoadedConfig(k)
      /\ (LoadedConfig(k) # NilConfig /\ Fallback(k)) =>
           ret[k].delay = LoadedConfig(k).pollInterval
      /\ LoadedConfig(k) = NilConfig =>
           /\ pc[k] \in {"patch_ret", "done"}
           /\ Done(k) => ret[k] = Res(0, TRUE)

\* the cache was replaced while the invocation ran: the domain reconciler
\* was called and the fallback delay is that of the payload loaded, not of
\* the payload cached now
C25_Witness ==
  \E k \in Keys :
    /\ Fallback(k) /\ Has(k, "DomainCreateOrUpdate")
    /\ LoadedConfig(k) \in Configs /\ providerConfig \in Configs
    /\ providerConfig.pollInterval # LoadedConfig(k).pollInterval
    /\ ret[k].delay = LoadedConfig(k).pollInterval

\* ---------------------------------------------------------------------- C26
\* the step writes the finalizer of k into the store
FinalizerAdded(k) == ~FinalizerStored(k) /\ FinalizerStored(k)'

\* the step is the call of the domain CreateOrUpdate by the invocation of k
CallsDomainCreateOrUpdate(k) == pc[k] = "cou_domain" /\ pc'[k] # "cou_domain"

\* the finalizer is written only to an object that is there and carries no
\* deletion marker, so never again once the deletion path has removed it
\* and the store has dropped the object
FinalizerOnlyOnLive(k) ==
  FinalizerAdded(k) => (store[k] # Absent /\ ~store[k].deleted /\ ~store'[k].deleted)

\* C26: only forward lifecycle transitions occur: the finalizer is never
\* added to an object whose deletion marker is set nor re-added after the
\* deletion path removed it, and the domain CreateOrUpdate is never called
\* with an object whose deletion marker is set, also when the marker is set
\* while a create/update invocation is between its fetch and its finalizer
\* write.
C26_ForwardOnly ==
  [][ \A k \in Keys :
        /\ FinalizerOnlyOnLive(k)
        /\ CallsDomainCreateOrUpdate(k) => ~obj[k].deleted ]_vars

\* ---------------------------------------------------------------------- C27
\* the lookup the step makes, as it is logged
LookupMade(k) == log'[k][Len(log'[k])]

\* what follows a lookup that answered l: in deletion goes to the teardown,
\* a failed lookup ends the invocation with the error, a live record goes to
\* the step given as onward
LookupVerdict(k, onward) ==
  LET l == LookupMade(k).val IN
  /\ l \in {"notfound", "deleting"} => (pc'[k] = "teardown" /\ ~LookupMade(k).err)
  /\ l = "error" => (pc'[k] = "done" /\ ret'[k] = Res(0, TRUE) /\ LookupMade(k).err)
  /\ l = "live" => (pc'[k] = onward /\ ~LookupMade(k).err)

\* C27: areAccessRequestsInDeletion answers true exactly when the MCP access
\* record is not found or carries a deletion marker, or, with a workload
\* cluster required and the MCP record live, the workload access record is
\* not found or carries a deletion marker; a lookup that fails otherwise ends
\* it with false and the error; the workload record is looked up only when a
\* workload cluster is required; the lookups answer from the records.
C27_InDeletionVerdict ==
  [][ \A k \in Keys :
        /\ (pc[k] = "del_mcpar" /\ pc'[k] # "del_mcpar") =>
             /\ LookupMade(k).op = "MCPAccessRequest"
             /\ LookupMade(k).val \in {RecordLookup(access[k].mcp), "error"}
             /\ LookupVerdict(k, IF withWorkloadCluster THEN "del_wlar" ELSE "del_carrec")
        /\ (pc[k] = "del_wlar" /\ pc'[k] # "del_wlar") =>
             /\ withWorkloadCluster
             /\ LookupMade(k).op = "WorkloadAccessRequest"
             /\ LookupMade(k).val \in {RecordLookup(access[k].wl), "error"}
             /\ LookupVerdict(k, "del_carrec")
        /\ pc'[k] = "del_wlar" => withWorkloadCluster ]_vars

\* with a workload cluster required, the MCP access record live and the
\* workload access record missing, the answer was true: the invocation is at
\* the teardown
C27_Witness ==
  \E k \in Keys :
    /\ withWorkloadCluster /\ pc[k] = "teardown" /\ Len(log[k]) = 4
    /\ log[k][3].op = "MCPAccessRequest" /\ log[k][3].val = "live"
    /\ log[k][4].op = "WorkloadAccessRequest" /\ log[k][4].val = "notfound"

\* ---------------------------------------------------------------------- C28
\* the access records of k are in deletion, as areAccessRequestsInDeletion
\* reads them
AccessInDeletion(k) ==
  \/ LookupInDeletion(RecordLookup(access[k].mcp))
  \/ withWorkloadCluster /\ LookupInDeletion(RecordLookup(access[k].wl))

\* the step is the call of the collaborator's Reconcile by a deletion-path
\* invocation of k
RenewsAccess(k) == pc[k] = "del_carrec" /\ pc'[k] # "del_carrec"

\* C28: a deletion-path invocation calls the collaborator's Reconcile only
\* while the access records are not in deletion, hence never again once
\* ReconcileDelete has put them in deletion; and once ReconcileDelete has
\* completed for an object, its access records stay in deletion for as long
\* as the object is there.
C28_NoRenewalAfterTeardown ==
  /\ [][ \A k \in Keys :
           RenewsAccess(k) => (~AccessInDeletion(k) /\ ~teardownDone[k]) ]_vars
  /\ [](\A k \in Keys :
          (store[k] # Absent /\ teardownDone[k]) => AccessInDeletion(k))

\* an earlier invocation completed the teardown but could not remove the
\* finalizer; this one found the records gone, skipped provisioning and
\* called ReconcileDelete again, which failed
C28_Witness ==
  \E k \in Keys :
    /\ Done(k) /\ DeletePath(k) /\ store[k] # Absent /\ teardownDone[k]
    /\ LastOp(k).op = "ReconcileDelete" /\ LastOp(k).err
    /\ ~Has(k, "Reconcile")

\* ---------------------------------------------------------------------- C29
\* positions at which an invocation calls the collaborator or the domain
\* reconciler
CallPositions ==
  {"cou_carrec", "cou_mcpcl", "cou_wlcl", "cou_domain", "del_mcpar", "del_wlar",
   "del_carrec", "del_mcpcl", "del_wlcl", "del_domain", "teardown"}

\* the step is such a call by the invocation of k
CallsOut(k) == pc[k] \in CallPositions /\ pc'[k] # pc[k]

\* the step changes the stored finalizer of k
FinalizerChanged(k) == FinalizerStored(k) # FinalizerStored(k)'

\* C29 (as stated): while the cached pointer is nil, no invocation calls the
\* collaborator or the domain reconciler or changes a finalizer, and every
\* invocation for an object marked for deletion returns an error.
C29_Original ==
  [][ \A k \in Keys :
        (providerConfig = NilConfig /\ providerConfig' = NilConfig) =>
          /\ ~CallsOut(k)
          /\ ~FinalizerChanged(k)
          /\ (Returns(k) /\ obj'[k] # NoObj /\ obj'[k].deleted) => ret'[k].err ]_vars

\* C29 (amended): an invocation that loads a nil pointer, for a live object
\* or one marked for deletion, makes no call to the collaborator or the
\* domain reconciler, leaves the finalizer as it fetched it (an object
\* marked for deletion keeps it) and returns an error with zero delay.
C29_NilConfigDoesNothing ==
  \A k \in Keys :
    NoConfig(k) =>
      /\ \A i \in DOMAIN log[k] : log[k][i].op \in {"Get", "Load", "StatusPatch"}
      /\ pc[k] \in {"patch_ret", "done"}
      /\ Done(k) => ret[k] = Res(0, TRUE)
      /\ store[k] # Absent => store[k].finalizer = obj[k].finalizer
      /\ obj[k].deleted => FinalizerStored(k)

\* an invocation for an object marked for deletion loaded nil and returned
\* the error; the finalizer is still there
C29_Witness ==
  \E k \in Keys :
    /\ Done(k) /\ NoConfig(k) /\ obj[k].deleted
    /\ ret[k] = Res(0, TRUE)
    /\ FinalizerStored(k) /\ store[k].deleted

\* ---------------------------------------------------------------------- C30
\* the invocation of k is one for an object marked for deletion
ForDeleted(k) == DeletePath(k) \/ (NoConfig(k) /\ obj[k].deleted)

\* the calls that may report a requeue delay on the deletion path
DelayingCalls == {"Reconcile", "DomainDelete", "ReconcileDelete"}

\* C30: an invocation for an object marked for deletion returns an error
\* with zero delay, or the positive delay that the collaborator's Reconcile,
\* the domain Delete or ReconcileDelete reported as its last call, or else
\* (the poll-interval fallback) it has written the finalizer removal
\* successfully as its last call and the finalizer is gone.
C30_NoSilentStall ==
  [][ \A k \in Keys :
        (Returns(k) /\ ForDeleted(k)') =>
          \/ ret'[k] = Res(0, TRUE) /\ ~FinalizerDropped(k)
          \/ /\ ~ret'[k].err /\ ret'[k].delay > 0
             /\ LastOp(k)'.op \in DelayingCalls
             /\ LastOp(k)'.delay = ret'[k].delay
             /\ ~FinalizerDropped(k)
          \/ /\ ret'[k] = Res(PollOf(cfg'[k]), FALSE)
             /\ LastOp(k)'.op = "Update" /\ ~LastOp(k)'.err
             /\ FinalizerDropped(k) ]_vars

\* a deletion invocation ran the domain Delete and the teardown and returned
\* no error with zero delay (the poll interval is 0): the finalizer removal
\* was written and the object is gone
C30_Witness ==
  \E k \in Keys :
    /\ Done(k) /\ DeletePath(k) /\ Has(k, "DomainDelete")
    /\ ret[k] = Res(0, FALSE) /\ PollOf(cfg[k]) = 0
    /\ LastOp(k).op = "Update" /\ ~LastOp(k).err
    /\ store[k] = Absent

\* ---------------------------------------------------------------------- C32
\* the last call of the invocation of k, status patches included
LastCall(k) == log[k][Len(log[k])]

\* the position of the status patch that follows the domain call made at
\* position p
PatchAfter(p) == IF p = "cou_domain" THEN "patch_ret" ELSE "patch_del"

\* the invocation of k gets an error from the domain CreateOrUpdate or Delete,
\* which has changed the status of the object it was handed
DomainFailsWithStatus(k) ==
  /\ pc[k] \in {"cou_domain", "del_domain"} /\ pc'[k] # pc[k]
  /\ LastCall(k)'.err
  /\ obj'[k].status # obj[k].status

\* the invocation of k makes the status patch that follows a failed call
PatchesAfterError(k) ==
  /\ pc[k] \in {"patch_ret", "patch_del"} /\ pc'[k] # pc[k]
  /\ pend[k].err

\* C32: when the domain CreateOrUpdate or the domain Delete returns an error
\* after changing the object's status, the invocation has not returned yet
\* and its next step is the status patch; that patch carries every status
\* field that differs from the old object, the store holds those fields when
\* the patch succeeds, and only then Reconcile returns the error with zero
\* delay.
C32_StatusPatchedOnDomainError ==
  [][ \A k \in Keys :
        /\ DomainFailsWithStatus(k) =>
             /\ pc'[k] = PatchAfter(pc[k])
             /\ ret'[k] = NoRet
             /\ pend'[k].err
        /\ PatchesAfterError(k) =>
             /\ LastCall(k)'.op = "StatusPatch"
             /\ pc'[k] = "done" /\ ret'[k] = Res(0, TRUE)
             /\ ~LastCall(k)'.err =>
                  \A f \in DOMAIN obj[k].status :
                    obj[k].status[f] # old[k][f] =>
                      store'[k].status[f] = obj[k].status[f] ]_vars

\* an invocation whose domain CreateOrUpdate failed after changing the status
\* has patched the status as its last call and returned the error; the store
\* holds the changed status
C32_Witness ==
  \E k \in Keys :
    /\ Done(k) /\ Len(log[k]) >= 2
    /\ log[k][Len(log[k]) - 1].op = "DomainCreateOrUpdate"
    /\ log[k][Len(log[k]) - 1].err
    /\ log[k][Len(log[k]) - 1].val # "none"
    /\ LastCall(k).op = "StatusPatch" /\ ~LastCall(k).err
    /\ ret[k] = Res(0, TRUE)
    /\ store[k] # Absent /\ store[k].status = obj[k].status
    /\ store[k].status # old[k]

\* the same on the deletion path: the domain Delete failed after changing the
\* status, the patch was made inside delete and the error returned
C32_WitnessDelete ==
  \E k \in Keys :
    /\ Done(k) /\ Len(log[k]) >= 2
    /\ log[k][Len(log[k]) - 1].op = "DomainDelete"
    /\ log[k][Len(log[k]) - 1].err
    /\ LastCall(k).op = "StatusPatch" /\ ~LastCall(k).err
    /\ ret[k] = Res(0, TRUE)
    /\ store[k] # Absent /\ store[k].status = obj[k].status
    /\ store[k].status # old[k]

\* ------------------------------------------------- deletion, run to the end
\* an object marked for deletion and its access requests as a deletion
\* request finds them: the finalizer is stored (the store would have dropped
\* the object otherwise); provisioning has completed, has stopped after the
\* first access request, or has not created any
DeletionStates(wwc) ==
  LET held == [AddFinalizer(NewObject) EXCEPT !.deleted = TRUE] IN
  { [object |-> o, access |-> a] :
      o \in {held, StatusReady(held)},
      a \in {NoAccess, ProvisionMCP(NoAccess), Provision(NoAccess, wwc)} }

\* a configuration is cached
DeletionWorlds ==
  UNION {
    { [withWorkloadCluster |-> b,
       store |-> [k \in Objects |-> IF k \in Keys THEN st.object ELSE Absent],
       access |-> [k \in Objects |-> IF k \in Keys THEN st.access ELSE NoAccess],
       providerConfig |-> c] :
        c \in Configs, st \in DeletionStates(b) } :
    b \in BOOLEAN }

InitDeletion == Start(FALSE, {0}, {NoObj}, DeletionWorlds)

\* the deletion path and the requests that drive it; the configuration may
\* be replaced but stays cached, and nobody creates the object again
NextDeletion ==
  \/ \E ev \in Configs, listOk \in BOOLEAN : MapFunc(ev, listOk)
  \/ \E k \in Keys : Reconcile_Get(k)
  \/ \E k \in Keys : Reconcile_Load(k)
  \/ \E k \in Keys : delete_MCPAccessRequest(k)
  \/ \E k \in Keys : delete_WorkloadAccessRequest(k)
  \/ \E k \in Keys : delete_Access(k)
  \/ \E k \in Keys : delete_MCPCluster(k)
  \/ \E k \in Keys : delete_WorkloadCluster(k)
  \/ \E k \in Keys : delete_Domain(k)
  \/ \E k \in Keys : updateStatus_Delete(k)
  \/ \E k \in Keys : delete_Teardown(k)
  \/ \E k \in Keys : delete_Update(k)

\* the call just made returned zero delay and no error
Succeeds(k) == ~LastCall(k)'.err /\ LastCall(k)'.delay = 0

\* the host takes the request for k up: the first one, and one after every
\* error and every requeue delay; the fetch is answered
Retry(k) ==
  /\ IF pc[k] = "done" THEN ret[k].err \/ ret[k].delay > 0 ELSE pc[k] = "idle"
  /\ Reconcile_Get(k)
  /\ ~LastCall(k)'.err

\* the host re-invokes Reconcile after every error and requeue delay, every
\* call returns, and each of the access lookups, the access resolution, the
\* domain Delete, the teardown and the finalizer Update, tried again and
\* again, returns zero delay without error in the end
SpecDeletionFair ==
  /\ InitDeletion
  /\ [][NextDeletion]_vars
  /\ \A k \in Keys :
       /\ WF_vars(Retry(k))
       /\ WF_vars(Reconcile_Load(k))
       /\ WF_vars(updateStatus_Delete(k))
       /\ SF_vars(delete_MCPAccessRequest(k) /\ Succeeds(k))
       /\ SF_vars(delete_WorkloadAccessRequest(k) /\ Succeeds(k))
       /\ SF_vars(delete_Access(k) /\ Succeeds(k))
       /\ SF_vars(delete_MCPCluster(k) /\ Succeeds(k))
       /\ SF_vars(delete_WorkloadCluster(k) /\ Succeeds(k))
       /\ SF_vars(delete_Domain(k) /\ Succeeds(k))
       /\ SF_vars(delete_Teardown(k) /\ Succeeds(k))
       /\ SF_vars(delete_Update(k) /\ Succeeds(k))

\* ---------------------------------------------------------------------- C31
\* the host starts an invocation for k
Invoked(k) == pc[k] \in {"idle", "done"} /\ << log[k], ret[k], pc[k] >>' # << log[k], ret[k], pc[k] >>

\* C31: an object marked for deletion, with a configuration cached, loses its
\* finalizer in the end (the store then drops it) when the host re-invokes
\* Reconcile after every error and requeue delay and each call succeeds in
\* the end; every invocation after that makes no call but the fetch, writes
\* nothing, and returns zero delay and no error once the fetch is answered.
C31_DeletionCompletes ==
  /\ \A k \in Keys : (store[k] # Absent /\ store[k].deleted) ~> (store[k] = Absent)
  /\ [][ \A k \in Keys :
           (store[k] = Absent /\ Invoked(k)) =>
             /\ pc'[k] = "done" /\ Len(log'[k]) = 1
             /\ store' = store /\ access' = access
             /\ ~LastCall(k)'.err => ret'[k] = Res(0, FALSE) ]_vars

\* the domain Delete and the teardown have completed, the finalizer is gone
\* and the object dropped, and a later invocation has found nothing to do
C31_Witness ==
  \E k \in Keys :
    /\ store[k] = Absent /\ access[k] = NoAccess
    /\ Done(k) /\ log[k] = << Ev("Get", FALSE, 0, "notfound") >>
    /\ ret[k] = Res(0, FALSE)
    /\ domDeleteDone[k] /\ teardownDone[k]

====
